---------------------------- MODULE Spec2Model ----------------------------
(***************************************************************************)
(* Variant analytics of the products service: the order reduction, the     *)
(* percentage-based stale analysis and the rule-based suggestion engine    *)
(* (src/unnamed/part_002, ProductsService).                                *)
(*                                                                         *)
(* Numbers.  JavaScript numbers are modelled exactly: a non-integer value  *)
(* is a pair <<n, d>> with d > 0 standing for n / d, and comparisons are   *)
(* made by cross-multiplication.  Timestamps are counted in ticks, with    *)
(* TicksPerDay ticks to the day, tick 0 being 1 January 00:00 local time   *)
(* of a 365-day year.  Prices are counted in cents.  An optional value is  *)
(* <<>> (undefined / null) or <<v>>.                                       *)
(***************************************************************************)
EXTENDS Integers, Sequences, FiniteSets, TLC

VARIABLES
    pc,            \* "idle" | "done": position of the one request in flight
    request,       \* the request the controller received
    shopProduct,   \* upstream reply to GET products/{productId}
    shopOrders,    \* upstream reply to GET orders (<<>> until fetched)
    shopCalls,     \* upstream calls made for the variant analytics request, in order
    currentDate,   \* value of `new Date()` during the request, in ticks
    locals,        \* locals of calculateFocusedVariantAnalytics
    response,      \* body returned by the controller
    staleCall,     \* last direct call of calculatePercentageBasedStaleAnalysis
    suggestCall,   \* last direct call of generateVariantSuggestions
    aiUrl,         \* process.env.AI_CATEGORY_API_BASE_URL
    aiPc,          \* position of the ai-data request in flight
    aiReq,         \* the ai-data request the controller received
    aiProduct,     \* the product generateAIProductData fetched
    aiResolved,    \* the category getProductCategoryFromAI returned
    aiOrders,      \* the product's orders, as fetched and filtered
    aiPayload,     \* the payload calculateAIMetrics returned
    aiCalls,       \* upstream calls made for the request, in order
    aiResponse,    \* body returned by the controller
    paging,        \* locals of the getAllProducts call in progress
    api,           \* the request at a controller: its handler, body, calls and answer
    ltv,           \* the LTV/CAC analysis in progress: its body, position, totals and answer
    flight         \* the two variant analytics requests in flight at once: the locals of each

\* The variant analytics request and the direct calls
analyticsVars == <<pc, request, shopProduct, shopOrders, shopCalls, currentDate, locals, response, staleCall>>

\* The ai-data request
aiVars == <<aiUrl, aiPc, aiReq, aiProduct, aiResolved, aiOrders, aiPayload, aiCalls, aiResponse>>

\* The state of the operations other than the variant analytics request and
\* the stale analysis
serviceVars == <<suggestCall, aiVars, paging, api, ltv, flight>>

vars == <<pc, request, shopProduct, shopOrders, shopCalls, currentDate, locals, response, staleCall, serviceVars>>

-----------------------------------------------------------------------------
(* Bounds of the model *)

MaxOrders == 3      \* orders in one upstream reply (the code asks for <= 250)
TicksPerDay == 2    \* resolution of the clock
MaxUnits == 6       \* units sold, in direct calls of the stale analysis

(* Program constants *)

\* getAllProducts: the ceiling on pages (line 187) and the page size asked
\* of the shop (line 189)
MAX_PAGES == 50
PAGE_LIMIT == 250

DAYS_PER_MONTH == 30
DEFAULT_STALE_PERCENTAGE == 10

\* TIME_CONSTANTS.MINIMUM_MONTHS_LIVE = 0.033
MINIMUM_MONTHS_LIVE == <<33, 1000>>

-----------------------------------------------------------------------------
(* Exact arithmetic on n / d, d > 0 *)

Num(n) == <<n, 1>>
RLt(a, b) == a[1] * b[2] < b[1] * a[2]
RLe(a, b) == a[1] * b[2] <= b[1] * a[2]
RGt(a, b) == RLt(b, a)
RGe(a, b) == RLe(b, a)
REq(a, b) == a[1] * b[2] = b[1] * a[2]
RMax(a, b) == IF RLt(a, b) THEN b ELSE a
RSub(a, b) == <<a[1] * b[2] - b[1] * a[2], a[2] * b[2]>>
RMul(a, b) == <<a[1] * b[1], a[2] * b[2]>>
\* a / b for b # 0
RDiv(a, b) == IF b[1] > 0 THEN <<a[1] * b[2], a[2] * b[1]>>
              ELSE <<-(a[1] * b[2]), -(a[2] * b[1])>>

\* Math.ceil(n / d), d > 0
Ceil(n, d) == -((-n) \div d)
\* Math.round(x): nearest integer, halves towards +infinity
Round(x) == (2 * x[1] + x[2]) \div (2 * x[2])
\* Math.round(x * 100) / 100, in hundredths
Round2(x) == Round(<<100 * x[1], x[2]>>)

Undefined == <<>>
Some(v) == <<v>>


-----------------------------------------------------------------------------
(* Dates *)

\* Days of a 365-day year elapsed at the end of each calendar month
CumulativeDays == <<31, 59, 90, 120, 151, 181, 212, 243, 273, 304, 334, 365>>

\* new Date(t).getMonth(): 0 .. 11
getMonth(t) ==
    LET dayOfYear == (t \div TicksPerDay) % CumulativeDays[12]
    IN Cardinality({m \in 1..12 : CumulativeDays[m] <= dayOfYear})

-----------------------------------------------------------------------------
(* Order reduction: calculateFocusedVariantAnalytics, lines 1200-1226 *)

\* Mutant: every line item counts as one unit (line items counted, not units)
QuantityOf_PerLine(item) == IF item.quantity = Undefined THEN 0 ELSE 1

\* item.quantity || 0
QuantityOf(item) == IF item.quantity = Undefined THEN 0 ELSE item.quantity[1]

\* orders.filter(order => order.line_items?.some(item => item.variant_id == variantId))
HasVariant(order, variantId) ==
    \E i \in 1..Len(order.line_items) : order.line_items[i].variant_id = variantId

FilterVariantOrders(orders, variantId) ==
    SelectSeq(orders, LAMBDA order : HasVariant(order, variantId))

\* The body of order.line_items.forEach, folded over the items of one order
RECURSIVE AccumulateItems(_, _, _, _)
AccumulateItems(items, createdAt, variantId, acc) ==
    IF items = <<>> THEN acc
    ELSE LET item == Head(items)
             quantity == QuantityOf(item)
             itemRevenue == item.price * quantity
             next ==
                 IF item.variant_id = variantId
                 THEN [totalQuantitySold |-> acc.totalQuantitySold + quantity,
                       totalRevenue |-> acc.totalRevenue + itemRevenue,
                       firstSaleDate |->
                           IF acc.firstSaleDate = Undefined \/ createdAt < acc.firstSaleDate[1]
                           THEN Some(createdAt) ELSE acc.firstSaleDate,
                       lastSaleDate |->
                           IF acc.lastSaleDate = Undefined \/ createdAt > acc.lastSaleDate[1]
                           THEN Some(createdAt) ELSE acc.lastSaleDate]
                 ELSE acc
         IN AccumulateItems(Tail(items), createdAt, variantId, next)

\* The body of orders.forEach, folded over the orders
RECURSIVE AccumulateOrders(_, _, _)
AccumulateOrders(orders, variantId, acc) ==
    IF orders = <<>> THEN acc
    ELSE AccumulateOrders(Tail(orders), variantId,
             AccumulateItems(Head(orders).line_items, Head(orders).created_at, variantId, acc))

\* Mutant: the first sale is the first order of the list
SalesTotals_FirstListed(orders, variantId) ==
    LET totals == AccumulateOrders(orders, variantId,
                      [totalQuantitySold |-> 0, totalRevenue |-> 0,
                       firstSaleDate |-> Undefined, lastSaleDate |-> Undefined])
    IN  [totals EXCEPT !.firstSaleDate =
             IF orders = <<>> THEN Undefined ELSE Some(orders[1].created_at)]

SalesTotals(orders, variantId) ==
    AccumulateOrders(orders, variantId,
        [totalQuantitySold |-> 0, totalRevenue |-> 0,
         firstSaleDate |-> Undefined, lastSaleDate |-> Undefined])

-----------------------------------------------------------------------------
(* calculateSalesAcceleration, lines 2761-2814 *)

\* Array.prototype.sort with the created_at comparator: a stable sort
RECURSIVE InsertByDate(_, _)
InsertByDate(sorted, order) ==
    IF sorted = <<>> THEN <<order>>
    ELSE IF order.created_at < Head(sorted).created_at THEN <<order>> \o sorted
    ELSE <<Head(sorted)>> \o InsertByDate(Tail(sorted), order)

RECURSIVE SortByDate(_)
SortByDate(orders) ==
    IF orders = <<>> THEN <<>>
    ELSE InsertByDate(SortByDate(SubSeq(orders, 1, Len(orders) - 1)), orders[Len(orders)])

\* line_items.filter(variant).reduce(quantity), summed over the orders
RECURSIVE ItemsQuantity(_, _)
ItemsQuantity(items, variantId) ==
    IF items = <<>> THEN 0
    ELSE (IF Head(items).variant_id = variantId THEN QuantityOf(Head(items)) ELSE 0)
         + ItemsQuantity(Tail(items), variantId)

RECURSIVE HalfSales(_, _)
HalfSales(orders, variantId) ==
    IF orders = <<>> THEN 0
    ELSE ItemsQuantity(Head(orders).line_items, variantId) + HalfSales(Tail(orders), variantId)

\* Days between the first and the last order of a half; 1 for an empty half
HalfDays(half) ==
    IF Len(half) > 0
    THEN <<half[Len(half)].created_at - half[1].created_at, TicksPerDay>>
    ELSE Num(1)

\* Mutant: the orders are taken as listed, unsorted
calculateSalesAcceleration_Unsorted(orders, variantId) ==
    LET variantOrders == FilterVariantOrders(orders, variantId)
        midPoint == Len(variantOrders) \div 2
        firstHalf == SubSeq(variantOrders, 1, midPoint)
        secondHalf == SubSeq(variantOrders, midPoint + 1, Len(variantOrders))
        firstHalfRate == RDiv(Num(HalfSales(firstHalf, variantId)), RMax(HalfDays(firstHalf), Num(1)))
        secondHalfRate == RDiv(Num(HalfSales(secondHalf, variantId)), RMax(HalfDays(secondHalf), Num(1)))
    IN IF Len(variantOrders) < 2 THEN Num(0)
       ELSE IF RGt(firstHalfRate, Num(0))
            THEN RDiv(RSub(secondHalfRate, firstHalfRate), firstHalfRate)
            ELSE Num(0)

calculateSalesAcceleration(orders, variantId) ==
    LET variantOrders == SortByDate(FilterVariantOrders(orders, variantId))
        midPoint == Len(variantOrders) \div 2
        firstHalf == SubSeq(variantOrders, 1, midPoint)
        secondHalf == SubSeq(variantOrders, midPoint + 1, Len(variantOrders))
        firstHalfRate == RDiv(Num(HalfSales(firstHalf, variantId)), RMax(HalfDays(firstHalf), Num(1)))
        secondHalfRate == RDiv(Num(HalfSales(secondHalf, variantId)), RMax(HalfDays(secondHalf), Num(1)))
    IN IF Len(variantOrders) < 2 THEN Num(0)
       ELSE IF RGt(firstHalfRate, Num(0))
            THEN RDiv(RSub(secondHalfRate, firstHalfRate), firstHalfRate)
            ELSE Num(0)

-----------------------------------------------------------------------------
(* calculateSeasonalityScore, lines 2819-2842 *)

\* salesByMonth[month], for the months that have an entry
RECURSIVE MonthQuantity(_, _, _)
MonthQuantity(orders, variantId, month) ==
    IF orders = <<>> THEN 0
    ELSE (IF getMonth(Head(orders).created_at) = month
          THEN ItemsQuantity(Head(orders).line_items, variantId) ELSE 0)
         + MonthQuantity(Tail(orders), variantId, month)

MonthsWithEntry(orders, variantId) ==
    {getMonth(orders[i].created_at) : i \in {j \in 1..Len(orders) : HasVariant(orders[j], variantId)}}

RECURSIVE SumOver(_, _, _, _)
SumOver(months, orders, variantId, squared) ==
    IF months = {} THEN 0
    ELSE LET m == CHOOSE x \in months : TRUE
             v == MonthQuantity(orders, variantId, m)
         IN (IF squared THEN v * v ELSE v) + SumOver(months \ {m}, orders, variantId, squared)

\* The SQUARE of the score (variance / mean^2): the score itself is a square
\* root.  With k months, sum S and sum of squares Q: (k * Q - S^2) / S^2.
calculateSeasonalityScoreSquared(orders, variantId) ==
    LET months == MonthsWithEntry(orders, variantId)
        k == Cardinality(months)
        S == SumOver(months, orders, variantId, FALSE)
        Q == SumOver(months, orders, variantId, TRUE)
    IN IF k < 2 THEN Num(0)
       ELSE IF S > 0 THEN <<k * Q - S * S, S * S>> ELSE Num(0)

-----------------------------------------------------------------------------
(* calculatePercentageBasedStaleAnalysis, lines 1584-1621 *)

\* Math.ceil((currentDate - publishDate) / MILLISECONDS_PER_DAY)
DaysLive(publishDate, now) == Ceil(now - publishDate, TicksPerDay)

\* Math.max(daysLive / DAYS_PER_MONTH, MINIMUM_MONTHS_LIVE)
StaleMonthsLive(daysLive) == RMax(<<daysLive, DAYS_PER_MONTH>>, MINIMUM_MONTHS_LIVE)

\* Mutant: the share of the inventory that is left, not the share sold
PercentSoldPerMonth_Unsold(unitsSold, totalInventoryAdded, daysLive) ==
    IF totalInventoryAdded > 0
    THEN RMul(RDiv(RDiv(Num(totalInventoryAdded - unitsSold), StaleMonthsLive(daysLive)),
                   Num(totalInventoryAdded)), Num(100))
    ELSE Num(0)

\* Mutant: a variant without inventory counts as sold out, 100 percent
PercentSoldPerMonth_SoldOut(unitsSold, totalInventoryAdded, daysLive) ==
    IF totalInventoryAdded > 0
    THEN RMul(RDiv(RDiv(Num(unitsSold), StaleMonthsLive(daysLive)),
                   Num(totalInventoryAdded)), Num(100))
    ELSE Num(100)

\* The unrounded percentSoldPerMonth
PercentSoldPerMonth(unitsSold, totalInventoryAdded, daysLive) ==
    LET monthlySalesRate == RDiv(Num(unitsSold), StaleMonthsLive(daysLive))
    IN IF totalInventoryAdded > 0
       THEN RMul(RDiv(monthlySalesRate, Num(totalInventoryAdded)), Num(100))
       ELSE Num(0)

\* Mutant: stale at the threshold too (<= for <)
StaleAnalysis_AtThreshold(unitsSold, totalInventoryAdded, publishDate, now, thresholdArg) ==
    LET thresholdPercent ==
            IF thresholdArg = Undefined THEN DEFAULT_STALE_PERCENTAGE ELSE thresholdArg[1]
        daysLive == DaysLive(publishDate, now)
        percentSoldPerMonth == PercentSoldPerMonth(unitsSold, totalInventoryAdded, daysLive)
    IN [is_stale |-> RLe(percentSoldPerMonth, Num(thresholdPercent)),
        monthly_sales_rate |-> Round2(RDiv(Num(unitsSold), StaleMonthsLive(daysLive))),
        percent_sold_per_month |-> Round2(percentSoldPerMonth),
        months_live |-> Round2(StaleMonthsLive(daysLive)),
        threshold_percent_used |-> thresholdPercent]

\* Mutant: the comparison turned around (stale above the threshold)
StaleAnalysis_Reversed(unitsSold, totalInventoryAdded, publishDate, now, thresholdArg) ==
    LET thresholdPercent ==
            IF thresholdArg = Undefined THEN DEFAULT_STALE_PERCENTAGE ELSE thresholdArg[1]
        daysLive == DaysLive(publishDate, now)
        percentSoldPerMonth == PercentSoldPerMonth(unitsSold, totalInventoryAdded, daysLive)
    IN [is_stale |-> RGt(percentSoldPerMonth, Num(thresholdPercent)),
        monthly_sales_rate |-> Round2(RDiv(Num(unitsSold), StaleMonthsLive(daysLive))),
        percent_sold_per_month |-> Round2(percentSoldPerMonth),
        months_live |-> Round2(StaleMonthsLive(daysLive)),
        threshold_percent_used |-> thresholdPercent]

\* thresholdPercent is an optional argument, defaulting to STALE_PERCENTAGE
calculatePercentageBasedStaleAnalysis(unitsSold, totalInventoryAdded, publishDate, now, thresholdArg) ==
    LET thresholdPercent ==
            IF thresholdArg = Undefined THEN DEFAULT_STALE_PERCENTAGE ELSE thresholdArg[1]
        daysLive == DaysLive(publishDate, now)
        monthsLive == StaleMonthsLive(daysLive)
        monthlySalesRate == RDiv(Num(unitsSold), monthsLive)
        percentSoldPerMonth == PercentSoldPerMonth(unitsSold, totalInventoryAdded, daysLive)
        isStale == RLt(percentSoldPerMonth, Num(thresholdPercent))
    IN [is_stale |-> isStale,
        monthly_sales_rate |-> Round2(monthlySalesRate),        \* hundredths
        percent_sold_per_month |-> Round2(percentSoldPerMonth), \* hundredths
        months_live |-> Round2(monthsLive),                     \* hundredths
        threshold_percent_used |-> thresholdPercent]

-----------------------------------------------------------------------------
(* generateVariantSuggestions, lines 1382-1572 *)

Suggestion(type, priority) == [type |-> type, priority |-> priority]

\* Mutant: INVENTORY_WARNING below 30 days only (< for <=)
InventoryRule_StrictWarning(currentInventory, daysOfStockRemaining) ==
    IF currentInventory = 0 THEN <<Suggestion("CRITICAL_INVENTORY", "URGENT")>>
    ELSE IF RLe(daysOfStockRemaining, Num(7)) THEN <<Suggestion("LOW_INVENTORY", "HIGH")>>
    ELSE IF RLt(daysOfStockRemaining, Num(30)) THEN <<Suggestion("INVENTORY_WARNING", "MEDIUM")>>
    ELSE IF RGt(daysOfStockRemaining, Num(180)) THEN <<Suggestion("OVERSTOCK", "MEDIUM")>>
    ELSE <<>>

\* Inventory-based suggestions, lines 1399-1428
InventoryRule(currentInventory, daysOfStockRemaining) ==
    IF currentInventory = 0 THEN <<Suggestion("CRITICAL_INVENTORY", "URGENT")>>
    ELSE IF RLe(daysOfStockRemaining, Num(7)) THEN <<Suggestion("LOW_INVENTORY", "HIGH")>>
    ELSE IF RLe(daysOfStockRemaining, Num(30)) THEN <<Suggestion("INVENTORY_WARNING", "MEDIUM")>>
    ELSE IF RGt(daysOfStockRemaining, Num(180)) THEN <<Suggestion("OVERSTOCK", "MEDIUM")>>
    ELSE <<>>

\* Mutant: HIGH_PERFORMER above twice the threshold only (> for >=)
PerformanceRule_StrictHigh(monthlySalesRate, staleThreshold) ==
    IF REq(monthlySalesRate, Num(0)) THEN <<Suggestion("NO_SALES", "CRITICAL")>>
    ELSE IF RLt(monthlySalesRate, <<3 * staleThreshold, 10>>)
         THEN <<Suggestion("POOR_PERFORMANCE", "HIGH")>>
    ELSE IF RLt(monthlySalesRate, Num(staleThreshold))
         THEN <<Suggestion("BELOW_TARGET", "MEDIUM")>>
    ELSE IF RGt(monthlySalesRate, Num(staleThreshold * 2))
         THEN <<Suggestion("HIGH_PERFORMER", "LOW")>>
    ELSE <<>>

\* Performance-based suggestions, lines 1430-1459
PerformanceRule(monthlySalesRate, staleThreshold) ==
    IF REq(monthlySalesRate, Num(0)) THEN <<Suggestion("NO_SALES", "CRITICAL")>>
    ELSE IF RLt(monthlySalesRate, <<3 * staleThreshold, 10>>)
         THEN <<Suggestion("POOR_PERFORMANCE", "HIGH")>>
    ELSE IF RLt(monthlySalesRate, Num(staleThreshold))
         THEN <<Suggestion("BELOW_TARGET", "MEDIUM")>>
    ELSE IF RGe(monthlySalesRate, Num(staleThreshold * 2))
         THEN <<Suggestion("HIGH_PERFORMER", "LOW")>>
    ELSE <<>>

\* Mutant: the alert at the label's boundaries, +-0.1
TrendRule_LabelBounds(salesAcceleration) ==
    IF RLt(salesAcceleration, <<-1, 10>>) THEN <<Suggestion("DECLINING_TREND", "HIGH")>>
    ELSE IF RGt(salesAcceleration, <<1, 10>>) THEN <<Suggestion("POSITIVE_MOMENTUM", "MEDIUM")>>
    ELSE <<>>

\* Trend-based suggestions, lines 1461-1476
TrendRule(salesAcceleration) ==
    IF RLt(salesAcceleration, <<-3, 10>>) THEN <<Suggestion("DECLINING_TREND", "HIGH")>>
    ELSE IF RGt(salesAcceleration, <<3, 10>>) THEN <<Suggestion("POSITIVE_MOMENTUM", "MEDIUM")>>
    ELSE <<>>

\* A PRICING_OPPORTUNITY suggestion; action_price is the price its action
\* text proposes, (price + potentialIncrease).toFixed(2), in cents
PricingSuggestion(actionPrice) ==
    [type |-> "PRICING_OPPORTUNITY", priority |-> "LOW", action_price |-> actionPrice]

\* Mutant: the increase truncated to whole cents (Math.floor for Math.round)
PricingRule_FloorIncrease(monthlySalesRate, staleThreshold, price) ==
    IF RGe(monthlySalesRate, Num(staleThreshold)) /\ price > 0
    THEN <<PricingSuggestion(price + ((15 * price) \div 100))>>
    ELSE <<>>

\* Revenue optimization suggestions, lines 1478-1487; price in cents.
\* potentialIncrease = Math.round(price * 0.15 * 100) / 100: with the price
\* in cents, Math.round(15 * cents / 100) cents.
PricingRule(monthlySalesRate, staleThreshold, price) ==
    IF RGe(monthlySalesRate, Num(staleThreshold)) /\ price > 0
    THEN <<PricingSuggestion(price + Round(<<15 * price, 100>>))>>
    ELSE <<>>

\* Seasonal suggestions, lines 1489-1497: score > 0.5, i.e. score^2 > 1/4
SeasonalRule(seasonalityScoreSquared) ==
    IF RGt(seasonalityScoreSquared, <<1, 4>>)
    THEN <<Suggestion("SEASONAL_PLANNING", "MEDIUM")>>
    ELSE <<>>

\* Mutant: bundling at the threshold too (<= for <)
BundlingRule_AtThreshold(monthlySalesRate, staleThreshold, totalRevenue) ==
    IF RLe(monthlySalesRate, Num(staleThreshold)) /\ totalRevenue > 0
    THEN <<Suggestion("BUNDLING_OPPORTUNITY", "MEDIUM")>>
    ELSE <<>>

\* Bundle suggestions for slow movers, lines 1499-1507; revenue in cents
BundlingRule(monthlySalesRate, staleThreshold, totalRevenue) ==
    IF RLt(monthlySalesRate, Num(staleThreshold)) /\ totalRevenue > 0
    THEN <<Suggestion("BUNDLING_OPPORTUNITY", "MEDIUM")>>
    ELSE <<>>

\* Mutant: the days of stock are looked at before the stock itself
getSimpleInventoryStatus_DaysFirst(daysRemaining, currentStock) ==
    IF RLe(daysRemaining, Num(7)) THEN "CRITICAL_LOW"
    ELSE IF currentStock = 0 THEN "OUT_OF_STOCK"
    ELSE IF RLe(daysRemaining, Num(30)) THEN "LOW"
    ELSE IF RLe(daysRemaining, Num(90)) THEN "OPTIMAL"
    ELSE IF RLe(daysRemaining, Num(180)) THEN "HIGH"
    ELSE "OVERSTOCKED"

\* getSimpleInventoryStatus, lines 1711-1721
getSimpleInventoryStatus(daysRemaining, currentStock) ==
    IF currentStock = 0 THEN "OUT_OF_STOCK"
    ELSE IF RLe(daysRemaining, Num(7)) THEN "CRITICAL_LOW"
    ELSE IF RLe(daysRemaining, Num(30)) THEN "LOW"
    ELSE IF RLe(daysRemaining, Num(90)) THEN "OPTIMAL"
    ELSE IF RLe(daysRemaining, Num(180)) THEN "HIGH"
    ELSE "OVERSTOCKED"

\* Mutant: the label at the alert's boundaries, +-0.3
TrendLabel_AlertBounds(salesAcceleration) ==
    IF RGt(salesAcceleration, <<3, 10>>) THEN "IMPROVING"
    ELSE IF RLt(salesAcceleration, <<-3, 10>>) THEN "DECLINING"
    ELSE "STABLE"

\* performance_summary.trend, lines 1522-1527
TrendLabel(salesAcceleration) ==
    IF RGt(salesAcceleration, <<1, 10>>) THEN "IMPROVING"
    ELSE IF RLt(salesAcceleration, <<-1, 10>>) THEN "DECLINING"
    ELSE "STABLE"

\* product.variants?.find(v => v.id == variantId)
FindVariant(product, variantId) ==
    LET hits == SelectSeq(product.variants, LAMBDA v : v.id = variantId)
    IN IF hits = <<>> THEN Undefined ELSE Some(Head(hits))

\* parseFloat(variant.price) || 0, in cents
PriceOf(variant) == IF variant.price = Undefined THEN 0 ELSE variant.price[1]

\* Mutant: the performance rule chained to the inventory rule by else-if
generateVariantSuggestions_Chained(variant, monthlySalesRate, staleThreshold, currentInventory, daysOfStockRemaining, totalRevenue, salesAcceleration, seasonalityScoreSquared, staleAnalysis) ==
    LET price == PriceOf(variant)
        inventory == InventoryRule(currentInventory, daysOfStockRemaining)
        suggestions ==
            inventory
            \o (IF inventory = <<>> THEN PerformanceRule(monthlySalesRate, staleThreshold) ELSE <<>>)
            \o TrendRule(salesAcceleration)
            \o PricingRule(monthlySalesRate, staleThreshold, price)
            \o SeasonalRule(seasonalityScoreSquared)
            \o BundlingRule(monthlySalesRate, staleThreshold, totalRevenue)
    IN [total_suggestions |-> Len(suggestions),
        suggestions |-> suggestions,
        performance_summary |->
            [monthly_sales_rate |-> monthlySalesRate,
             stale_threshold_used |-> staleThreshold,
             inventory_status |-> getSimpleInventoryStatus(daysOfStockRemaining, currentInventory),
             trend |-> TrendLabel(salesAcceleration)],
        threshold_explanation |->
            [stale_threshold |-> staleThreshold,
             current_performance |->
                 IF staleAnalysis.is_stale THEN "BELOW_THRESHOLD" ELSE "ABOVE_THRESHOLD"]]

generateVariantSuggestions(variant, monthlySalesRate, staleThreshold, currentInventory, daysOfStockRemaining, totalRevenue, salesAcceleration, seasonalityScoreSquared, staleAnalysis) ==
    LET price == PriceOf(variant)
        suggestions ==
            InventoryRule(currentInventory, daysOfStockRemaining)
            \o PerformanceRule(monthlySalesRate, staleThreshold)
            \o TrendRule(salesAcceleration)
            \o PricingRule(monthlySalesRate, staleThreshold, price)
            \o SeasonalRule(seasonalityScoreSquared)
            \o BundlingRule(monthlySalesRate, staleThreshold, totalRevenue)
    IN [total_suggestions |-> Len(suggestions),
        suggestions |-> suggestions,
        performance_summary |->
            [monthly_sales_rate |-> monthlySalesRate,
             stale_threshold_used |-> staleThreshold,
             inventory_status |-> getSimpleInventoryStatus(daysOfStockRemaining, currentInventory),
             trend |-> TrendLabel(salesAcceleration)],
        threshold_explanation |->
            [stale_threshold |-> staleThreshold,
             current_performance |->
                 IF staleAnalysis.is_stale THEN "BELOW_THRESHOLD" ELSE "ABOVE_THRESHOLD"]]

-----------------------------------------------------------------------------
(* calculateFocusedVariantAnalytics, lines 1183-1377 *)

\* variant.inventory_quantity || 0
InventoryOf(variant) ==
    IF variant.inventory_quantity = Undefined THEN 0 ELSE variant.inventory_quantity[1]

\* product.published_at || product.created_at
PublishedAt(product) ==
    IF product.published_at = Undefined THEN product.created_at ELSE product.published_at[1]

\* staleThreshold || 10
ThresholdPercent(staleThreshold) ==
    IF staleThreshold = Undefined \/ staleThreshold[1] = 0 THEN 10 ELSE staleThreshold[1]

\* The locals of the function, unrounded
FocusedLocals(variant, orders, product, staleThreshold, now) ==
    LET totals == SalesTotals(orders, variant.id)
        totalQuantitySold == totals.totalQuantitySold
        publishedAt == PublishedAt(product)
        daysLive == DaysLive(publishedAt, now)
        monthsLive == <<daysLive, DAYS_PER_MONTH>>
        currentInventory == InventoryOf(variant)
        estimatedInitialInventory == currentInventory + totalQuantitySold
        monthlySalesRate ==
            IF RGt(monthsLive, Num(0)) THEN RDiv(Num(totalQuantitySold), monthsLive) ELSE Num(0)
        thresholdPercent == ThresholdPercent(staleThreshold)
        averageDailySales ==
            IF daysLive > 0 THEN <<totalQuantitySold, daysLive>> ELSE Num(0)
        daysOfStockRemaining ==
            IF RGt(averageDailySales, Num(0))
            THEN RDiv(Num(currentInventory), averageDailySales) ELSE Num(0)
    IN [totalQuantitySold |-> totalQuantitySold,
        totalRevenue |-> totals.totalRevenue,
        firstSaleDate |-> totals.firstSaleDate,
        lastSaleDate |-> totals.lastSaleDate,
        daysLive |-> daysLive,
        monthsLive |-> monthsLive,
        currentInventory |-> currentInventory,
        estimatedInitialInventory |-> estimatedInitialInventory,
        monthlySalesRate |-> monthlySalesRate,
        thresholdPercent |-> thresholdPercent,
        staleAnalysis |->
            calculatePercentageBasedStaleAnalysis(totalQuantitySold, estimatedInitialInventory,
                                                  publishedAt, now, Some(thresholdPercent)),
        percentSoldPerMonth |->
            PercentSoldPerMonth(totalQuantitySold, estimatedInitialInventory, daysLive),
        averageDailySales |-> averageDailySales,
        daysOfStockRemaining |-> daysOfStockRemaining,
        inventoryTurnoverRate |->
            IF estimatedInitialInventory > 0
            THEN <<totalQuantitySold, estimatedInitialInventory>> ELSE Num(0),
        stockoutRisk |-> IF RLe(daysOfStockRemaining, Num(30)) THEN 1 ELSE 0,
        salesAcceleration |-> calculateSalesAcceleration(orders, variant.id),
        seasonalityScoreSquared |-> calculateSeasonalityScoreSquared(orders, variant.id)]

\* The object the function returns, from its locals.  Rounded rates are in
\* hundredths, money in cents.
FocusedResult(variant, orders, l) ==
    [variant_id |-> variant.id,
     price |-> PriceOf(variant),
     current_quantity |-> l.currentInventory,
     estimated_initial_quantity |-> l.estimatedInitialInventory,
     total_quantity_sold |-> l.totalQuantitySold,
     inventory_turnover_rate |-> Round2(l.inventoryTurnoverRate),
     monthly_sales_rate |-> Round2(l.monthlySalesRate),
     daily_sales_rate |-> Round2(l.averageDailySales),
     total_revenue |-> l.totalRevenue,
     total_orders |-> Len(orders),
     days_live |-> l.daysLive,
     months_live |-> Round2(l.monthsLive),
     is_stale |-> IF l.staleAnalysis.is_stale THEN 1 ELSE 0,
     stockout_risk |-> l.stockoutRisk,
     percent_sold_per_month |-> l.staleAnalysis.percent_sold_per_month,
     threshold_percent_used |-> l.staleAnalysis.threshold_percent_used,
     days_of_stock_remaining |-> Round(l.daysOfStockRemaining),
     sales_acceleration |-> Round2(l.salesAcceleration),
     first_sale_timestamp |-> l.firstSaleDate,
     last_sale_timestamp |-> l.lastSaleDate,
     intelligent_suggestions |->
         generateVariantSuggestions(variant, l.monthlySalesRate, l.thresholdPercent,
                                    l.currentInventory, l.daysOfStockRemaining, l.totalRevenue,
                                    l.salesAcceleration, l.seasonalityScoreSquared,
                                    l.staleAnalysis)]

calculateFocusedVariantAnalytics(variant, orders, product, staleThreshold, now) ==
    FocusedResult(variant, orders, FocusedLocals(variant, orders, product, staleThreshold, now))

-----------------------------------------------------------------------------
(* Strings.  A string the code searches or changes the case of is the
   sequence of its characters. *)

UpperCase == <<"A", "B", "C", "D", "E", "F", "G", "H", "I", "J", "K", "L", "M", "N", "O", "P", "Q", "R", "S", "T", "U", "V", "W", "X", "Y", "Z">>
LowerCase == <<"a", "b", "c", "d", "e", "f", "g", "h", "i", "j", "k", "l", "m", "n", "o", "p", "q", "r", "s", "t", "u", "v", "w", "x", "y", "z">>

\* String.prototype.toLowerCase
toLowerCase(str) ==
    [i \in 1..Len(str) |->
        IF \E k \in 1..Len(UpperCase) : UpperCase[k] = str[i]
        THEN LowerCase[CHOOSE k \in 1..Len(UpperCase) : UpperCase[k] = str[i]]
        ELSE str[i]]

\* String.prototype.includes
includes(str, searchString) ==
    \E start \in 0..(Len(str) - Len(searchString)) :
        SubSeq(str, start + 1, start + Len(searchString)) = searchString


\* The strings of the model, spelled out: the categories, product types and
\* keywords of product.constants.ts, "general" and "constructor", the product
\* types "Clothing" and "gadgets", and the tags "summer, fashion essentials",
\* "Fashion, Furniture", "seafood" and "gift"
Str ==
    [furniture |-> <<"f", "u", "r", "n", "i", "t", "u", "r", "e">>,
     fashion |-> <<"f", "a", "s", "h", "i", "o", "n">>,
     food |-> <<"f", "o", "o", "d">>,
     fitness |-> <<"f", "i", "t", "n", "e", "s", "s">>,
     electronics |-> <<"e", "l", "e", "c", "t", "r", "o", "n", "i", "c", "s">>,
     general |-> <<"g", "e", "n", "e", "r", "a", "l">>,
     home |-> <<"h", "o", "m", "e">>,
     health |-> <<"h", "e", "a", "l", "t", "h">>,
     beauty |-> <<"b", "e", "a", "u", "t", "y">>,
     toys |-> <<"t", "o", "y", "s">>,
     books |-> <<"b", "o", "o", "k", "s">>,
     automotive |-> <<"a", "u", "t", "o", "m", "o", "t", "i", "v", "e">>,
     clothing |-> <<"c", "l", "o", "t", "h", "i", "n", "g">>,
     accessories |-> <<"a", "c", "c", "e", "s", "s", "o", "r", "i", "e", "s">>,
     sports |-> <<"s", "p", "o", "r", "t", "s">>,
     constructor |-> <<"c", "o", "n", "s", "t", "r", "u", "c", "t", "o", "r">>,
     beverage |-> <<"b", "e", "v", "e", "r", "a", "g", "e">>,
     supplement |-> <<"s", "u", "p", "p", "l", "e", "m", "e", "n", "t">>,
     consumable |-> <<"c", "o", "n", "s", "u", "m", "a", "b", "l", "e">>,
     winter |-> <<"w", "i", "n", "t", "e", "r">>,
     summer |-> <<"s", "u", "m", "m", "e", "r">>,
     spring |-> <<"s", "p", "r", "i", "n", "g">>,
     fall |-> <<"f", "a", "l", "l">>,
     autumn |-> <<"a", "u", "t", "u", "m", "n">>,
     holiday |-> <<"h", "o", "l", "i", "d", "a", "y">>,
     christmas |-> <<"c", "h", "r", "i", "s", "t", "m", "a", "s">>,
     seasonal |-> <<"s", "e", "a", "s", "o", "n", "a", "l">>,
     diwali |-> <<"d", "i", "w", "a", "l", "i">>,
     holi |-> <<"h", "o", "l", "i">>,
     rakhi |-> <<"r", "a", "k", "h", "i">>,
     tags_SummerFashion |-> <<"s", "u", "m", "m", "e", "r", ",", " ", "f", "a", "s", "h", "i",
         "o", "n", " ", "e", "s", "s", "e", "n", "t", "i", "a", "l", "s">>,
     tags_FashionFurniture |-> <<"F", "a", "s", "h", "i", "o", "n", ",", " ", "F", "u", "r", "n",
         "i", "t", "u", "r", "e">>,
     tags_Seafood |-> <<"s", "e", "a", "f", "o", "o", "d">>,
     tags_Gift |-> <<"g", "i", "f", "t">>,
     Clothing |-> <<"C", "l", "o", "t", "h", "i", "n", "g">>,
     Gadgets |-> <<"g", "a", "d", "g", "e", "t", "s">>]


\* PREDEFINED_CATEGORIES, product.constants.ts lines 2-8
PREDEFINED_CATEGORIES == <<Str.furniture, Str.fashion, Str.food, Str.fitness, Str.electronics>>

\* CATEGORY_MAPPING, product.constants.ts lines 26-37: the object's own
\* properties, as <<key, value>>
CATEGORY_MAPPING ==
    {<<Str.clothing, Str.fashion>>, <<Str.accessories, Str.fashion>>,
     <<Str.electronics, Str.electronics>>, <<Str.home, Str.home>>,
     <<Str.sports, Str.fitness>>, <<Str.health, Str.health>>, <<Str.beauty, Str.beauty>>,
     <<Str.toys, Str.toys>>, <<Str.books, Str.books>>, <<Str.automotive, Str.automotive>>}

\* What an object literal inherits from Object.prototype under a lower-case
\* key: `constructor`, the function Object.  It is a truthy value that is not
\* a string, written here as a sequence that spells no string.
ObjectFunction == <<"function Object() { [native code] }">>
InheritedProperties == {<<Str.constructor, ObjectFunction>>}

\* typeof value === "string", for the values a category can take
IsString(value) == value # ObjectFunction

\* getProductCategory, lines 2872-2874:
\* CATEGORY_MAPPING[productType?.toLowerCase()] || "general".  The property
\* read finds own and inherited properties alike.
getProductCategory(productType) ==
    LET hits == {kv \in CATEGORY_MAPPING \cup InheritedProperties :
                    productType # Undefined /\ kv[1] = toLowerCase(productType[1])}
    IN IF hits = {} THEN Str.general ELSE (CHOOSE kv \in hits : TRUE)[2]

\* The predefined categories found in the lower-cased tags, by list position
TagMatches(tags) ==
    {i \in 1..Len(PREDEFINED_CATEGORIES) : includes(toLowerCase(tags), PREDEFINED_CATEGORIES[i])}

\* getCategoryFromTags, lines 2901-2914: the first category of the list that
\* the lower-cased tags contain; null without tags or without a match
getCategoryFromTags(tags) ==
    IF tags = Undefined \/ tags[1] = <<>> THEN Undefined
    ELSE LET matches == TagMatches(tags[1])
         IN IF matches = {} THEN Undefined
            ELSE Some(PREDEFINED_CATEGORIES[CHOOSE i \in matches : \A j \in matches : i <= j])

\* a || b || ... over the six places of the classification result, lines
\* 945-951: the first that is neither undefined nor the empty string
RECURSIVE FirstTruthy(_)
FirstTruthy(fields) ==
    IF fields = <<>> THEN Undefined
    ELSE IF Head(fields) # Undefined /\ Head(fields)[1] # <<>> THEN Head(fields)
    ELSE FirstTruthy(Tail(fields))

ClassifyEndpoint == "classify-existing-categories"

\* Mutant: the classification service is asked first, the tags second
getProductCategoryFromAI_ServiceFirst(product, aiCategoryApiUrl, classify) ==
    LET fallback == getProductCategory(product.product_type)
        fromTags == getCategoryFromTags(product.tags)
        fromService == IF classify.ok /\ classify.result # Undefined
                       THEN FirstTruthy(classify.result[1]) ELSE Undefined
    IN IF aiCategoryApiUrl = Undefined
       THEN [category |-> IF fromTags # Undefined THEN fromTags[1] ELSE fallback, calls |-> <<>>]
       ELSE [category |-> IF fromService # Undefined THEN fromService[1]
                          ELSE IF fromTags # Undefined THEN fromTags[1] ELSE fallback,
             calls |-> <<ClassifyEndpoint>>]

\* getProductCategoryFromAI, lines 860-972.  classify is what the
\* classification service does if it is called: [ok, result], with ok FALSE
\* for a rejected fetch or a non-2xx status, and result undefined for a body
\* that is not JSON.  Returns the category and the external calls made.
getProductCategoryFromAI(product, aiCategoryApiUrl, classify) ==
    LET fallback == getProductCategory(product.product_type)
        fromTags == getCategoryFromTags(product.tags)
    IN IF fromTags # Undefined THEN [category |-> fromTags[1], calls |-> <<>>]
       ELSE IF aiCategoryApiUrl = Undefined THEN [category |-> fallback, calls |-> <<>>]
       ELSE IF ~classify.ok \/ classify.result = Undefined
            THEN [category |-> fallback, calls |-> <<ClassifyEndpoint>>]
       ELSE LET aiCategory == FirstTruthy(classify.result[1])
            IN [category |-> IF aiCategory # Undefined THEN aiCategory[1] ELSE fallback,
                calls |-> <<ClassifyEndpoint>>]

PRODUCT_KEYWORDS ==
    [CONSUMABLE |-> {Str.food, Str.beverage, Str.supplement, Str.consumable},
     SEASONAL |-> {Str.winter, Str.summer, Str.spring, Str.fall, Str.autumn, Str.holiday, Str.christmas, Str.seasonal, Str.diwali, Str.holi, Str.rakhi}]

\* text?.toLowerCase().includes(keyword); undefined (falsy) without a text
OptIncludes(text, keyword) == text # Undefined /\ includes(toLowerCase(text[1]), keyword)

\* parseFloat(targetVariant.price) || 0 of the variant the metrics use, lines
\* 1022-1030: the requested variant if the product has it, else the
\* product's first variant, else {}
TargetVariantOf(product, variantId) ==
    LET specificVariant ==
            IF variantId = Undefined THEN Undefined ELSE FindVariant(product, variantId[1])
    IN IF specificVariant # Undefined THEN specificVariant
       ELSE IF product.variants # <<>> THEN Some(product.variants[1])
       ELSE Undefined

\* Customers of the orders, and the orders of one customer
CustomerIds(orders) ==
    {orders[i].customer[1] : i \in {j \in 1..Len(orders) : orders[j].customer # Undefined}}
OrdersOf(orders, customerId) ==
    Cardinality({i \in 1..Len(orders) : orders[i].customer = Some(customerId)})

RECURSIVE ShippingTotal(_)
ShippingTotal(orders) ==
    IF orders = <<>> THEN 0
    ELSE (IF Head(orders).shipping # Undefined THEN Head(orders).shipping[1] ELSE 0)
         + ShippingTotal(Tail(orders))

\* calculateAIMetrics, lines 1016-1119.  Rates are in hundredths, money in
\* cents.  A category that is not a string has no toLowerCase: the TypeError
\* of line 1061 is the result [threw |-> TRUE].
calculateAIMetrics(product, orders, variantId, externalCategory) ==
    LET targetVariant == TargetVariantOf(product, variantId)
        price == IF targetVariant = Undefined THEN 0 ELSE PriceOf(targetVariant[1])
        ordersWithRefunds == Cardinality({i \in 1..Len(orders) : orders[i].refunds > 0})
        returnRate == IF Len(orders) > 0 THEN <<ordersWithRefunds, Len(orders)>> ELSE Num(0)
        customers == CustomerIds(orders)
        repeatCustomers == Cardinality({c \in customers : OrdersOf(orders, c) > 1})
        totalCustomers == Cardinality(customers)
        repeatRate == IF totalCustomers > 0 THEN <<repeatCustomers, totalCustomers>> ELSE Num(0)
        churnRate == RSub(Num(1), repeatRate)
        isConsumable ==
            \/ \E keyword \in PRODUCT_KEYWORDS.CONSUMABLE :
                  includes(toLowerCase(externalCategory), keyword)
            \/ \E keyword \in PRODUCT_KEYWORDS.CONSUMABLE :
                  OptIncludes(product.product_type, keyword) \/ OptIncludes(product.tags, keyword)
        isSeasonal ==
            \E keyword \in PRODUCT_KEYWORDS.SEASONAL :
                OptIncludes(product.title, keyword) \/ OptIncludes(product.tags, keyword)
        totalOrders == Cardinality({i \in 1..Len(orders) : orders[i].shipping # Undefined})
        shippingCost == IF totalOrders > 0 THEN <<ShippingTotal(orders), totalOrders>> ELSE Num(0)
    IN IF ~IsString(externalCategory) THEN [threw |-> TRUE, value |-> Undefined]
       ELSE [threw |-> FALSE,
             value |-> Some([price |-> price,
                             category |-> externalCategory,
                             return_rate |-> Round2(returnRate),
                             repeat_rate |-> Round2(repeatRate),
                             churn_rate |-> Round2(churnRate),
                             is_consumable |-> IF isConsumable THEN 1 ELSE 0,
                             is_seasonal |-> IF isSeasonal THEN 1 ELSE 0,
                             shipping_cost |-> Round(shippingCost),
                             traffic_source |-> "organic"])]

StrategyEndpoint == "predict-strategy"

\* Mutant: the failure of the strategy service is passed on as the result
getStrategyPrediction_PassesFailure(aiData, aiCategoryApiUrl, predict) ==
    IF aiCategoryApiUrl = Undefined THEN [value |-> aiData, calls |-> <<>>]
    ELSE IF ~predict.ok \/ predict.result = Undefined
         THEN [value |-> [error |-> "Strategy Prediction API error"],
               calls |-> <<StrategyEndpoint>>]
    ELSE [value |-> predict.result[1], calls |-> <<StrategyEndpoint>>]

\* getStrategyPrediction, lines 977-1011.  predict is what the strategy
\* service does if it is called: [ok, result], with ok FALSE for a rejected
\* fetch or a non-2xx status, and result undefined for a body that is not
\* JSON.  Returns the value and the external calls made.
getStrategyPrediction(aiData, aiCategoryApiUrl, predict) ==
    IF aiCategoryApiUrl = Undefined THEN [value |-> aiData, calls |-> <<>>]
    ELSE IF ~predict.ok \/ predict.result = Undefined
         THEN [value |-> aiData, calls |-> <<StrategyEndpoint>>]
    ELSE [value |-> predict.result[1], calls |-> <<StrategyEndpoint>>]

-----------------------------------------------------------------------------
(* The shop, as the Shopify Admin API serves it *)

TargetVariant == "v1"
OtherVariant == "v2"

\* Line items: five units at 20.00, one free unit, and another variant's item
ItemFive == [variant_id |-> TargetVariant, quantity |-> Some(5), price |-> 2000]
ItemFree == [variant_id |-> TargetVariant, quantity |-> Some(1), price |-> 0]
ItemOther == [variant_id |-> OtherVariant, quantity |-> Some(5), price |-> 1500]

\* `new Date()` during the request: 20 July, 00:00
Now == 200 * TicksPerDay

\* Order creation times: 40 days ago (June), 10 days ago, and a day and a
\* half after that (both July)
OrderDates ==
    {Now - 40 * TicksPerDay, Now - 10 * TicksPerDay, Now - 10 * TicksPerDay + TicksPerDay + 1}

\* Orders of five units at each time, and ten days ago an order of one free
\* unit beside another variant's item and an order of the other variant alone
Orders ==
    [created_at : OrderDates, line_items : {<<ItemFive>>}]
    \cup [created_at : {Now - 10 * TicksPerDay}, line_items : {<<ItemOther, ItemFree>>, <<ItemOther>>}]

\* published_at: null, one tick in the future, one tick ago, 30 days ago
PublishedDates == {Undefined, Some(Now + 1), Some(Now - 1), Some(Now - 30 * TicksPerDay)}

Inventories == {0, 5, 50}
Prices == {Some(0), Some(2000)}

OtherVariantRecord == [id |-> OtherVariant, inventory_quantity |-> Some(7), price |-> Some(1500)]

\* The product; created 60 days ago
Products ==
    {[published_at |-> pub, created_at |-> Now - 60 * TicksPerDay,
      variants |-> <<OtherVariantRecord,
                     [id |-> TargetVariant, inventory_quantity |-> Some(inv), price |-> price]>>]
        : pub \in PublishedDates, inv \in Inventories, price \in Prices}

\* threshold_percent of the request body: omitted, 0, 5
ThresholdArgs == {Undefined, Some(0), Some(5)}

\* No ai-data request in flight
AiIdle ==
    /\ aiPc = "idle"
    /\ aiReq = Undefined
    /\ aiProduct = Undefined
    /\ aiResolved = Undefined
    /\ aiOrders = Undefined
    /\ aiPayload = Undefined
    /\ aiCalls = <<>>
    /\ aiResponse = Undefined

\* The service at start: no call and no request in flight; url is the
\* environment's AI_CATEGORY_API_BASE_URL
ServicesInit(url) ==
    /\ suggestCall = Undefined
    /\ aiUrl = url
    /\ AiIdle
    /\ paging = Undefined
    /\ api = Undefined
    /\ ltv = Undefined
    /\ flight = <<Undefined, Undefined>>

Init ==
    /\ pc = "idle"
    /\ shopProduct \in Products
    /\ shopOrders = <<>>
    /\ shopCalls = <<>>
    /\ request = Undefined
    /\ currentDate = 0
    /\ locals = Undefined
    /\ response = Undefined
    /\ staleCall = Undefined
    /\ ServicesInit(Undefined)

\* A customer places an order; the orders endpoint lists it
PlaceOrder ==
    /\ pc = "idle"
    /\ Len(shopOrders) < MaxOrders
    /\ \E order \in Orders : shopOrders' = Append(shopOrders, order)
    /\ UNCHANGED <<pc, shopProduct, shopCalls, request, currentDate, locals, response, staleCall, serviceVars>>

-----------------------------------------------------------------------------
(* generateFocusedVariantAnalytics, lines 1124-1178, under the controller's
   getVariantAnalytics, src/unnamed/part_001 lines 380-424 *)

\* The body the controller returns; absent fields are undefined
Body(message, error, details, data) ==
    [message |-> message, error |-> error, details |-> details, data |-> data]

\* POST variant-analytics/:productId/:variantId with body req, served from the
\* shop as it is: the credentials check, the product fetch, the variant
\* lookup (a throw, caught by the controller, when it fails), the orders
\* fetch and filter, and the analytics.
getVariantAnalyticsFor(req) ==
    /\ pc = "idle"
    /\ request' = Some(req)
    /\ currentDate' = Now
    /\ IF req.shopDomain = Undefined \/ req.accessToken = Undefined
       THEN /\ locals' = Undefined
            /\ shopCalls' = <<>>
            /\ response' = Some(Body(Undefined, Some("Missing required credentials"),
                                     Undefined, Undefined))
       ELSE LET found == FindVariant(shopProduct, req.variantId)
                variantOrders == FilterVariantOrders(shopOrders, req.variantId)
            IN IF found = Undefined
               THEN /\ locals' = Undefined
                    /\ shopCalls' = <<"products/:productId">>
                    /\ response' = Some(Body(Undefined,
                                             Some("Failed to generate variant analytics"),
                                             Some("Variant not found in product"), Undefined))
               ELSE /\ locals' = Some(FocusedLocals(found[1], variantOrders, shopProduct,
                                                    req.threshold_percent, Now))
                    /\ shopCalls' = <<"products/:productId", "orders">>
                    /\ response' = Some(Body(Some("Variant analytics generated successfully"),
                                             Undefined, Undefined,
                                             Some(FocusedResult(found[1], variantOrders,
                                                                locals'[1]))))
    /\ pc' = "done"
    /\ UNCHANGED <<shopProduct, shopOrders, staleCall, serviceVars>>

\* Requests with credentials for the variant of the product
VariantRequests ==
    [shopDomain : {Some("shop.myshopify.com")}, accessToken : {Some("token")},
     variantId : {TargetVariant}, threshold_percent : ThresholdArgs]

getVariantAnalytics == \E req \in VariantRequests : getVariantAnalyticsFor(req)

\* The controller has answered; the service keeps nothing of the request
Respond ==
    /\ pc = "done"
    /\ pc' = "idle"
    /\ request' = Undefined
    /\ currentDate' = 0
    /\ locals' = Undefined
    /\ response' = Undefined
    /\ shopCalls' = <<>>
    /\ UNCHANGED <<shopProduct, shopOrders, staleCall, serviceVars>>

Next == PlaceOrder \/ getVariantAnalytics \/ Respond

Spec == Init /\ [][Next]_vars

-----------------------------------------------------------------------------
(* Direct calls of calculatePercentageBasedStaleAnalysis: the function on
   its own, over arguments its caller can and cannot produce *)

StaleInventories == {0, 1, 10, 60, 191}
StalePublishDates ==
    {Now + 1, Now - 1, Now - 11 * TicksPerDay, Now - 30 * TicksPerDay, Now - 60 * TicksPerDay}
StaleThresholds == {0, 5, 10, 20}
StaleThresholdArgs == {Undefined} \cup {Some(t) : t \in StaleThresholds}

DefaultProduct ==
    [published_at |-> Undefined, created_at |-> Now - 60 * TicksPerDay,
     variants |-> <<OtherVariantRecord>>]

InitStale ==
    /\ pc = "idle"
    /\ shopProduct = DefaultProduct
    /\ shopOrders = <<>>
    /\ shopCalls = <<>>
    /\ request = Undefined
    /\ currentDate = 0
    /\ locals = Undefined
    /\ response = Undefined
    /\ staleCall = Undefined
    /\ ServicesInit(Undefined)

StaleAnalysisCall ==
    /\ staleCall = Undefined
    /\ \E unitsSold \in 0..MaxUnits, totalInventoryAdded \in StaleInventories,
          publishDate \in StalePublishDates, thresholdArg \in StaleThresholdArgs :
          staleCall' = Some([unitsSold |-> unitsSold,
                             totalInventoryAdded |-> totalInventoryAdded,
                             publishDate |-> publishDate,
                             currentDate |-> Now,
                             thresholdArg |-> thresholdArg,
                             ret |-> calculatePercentageBasedStaleAnalysis(
                                         unitsSold, totalInventoryAdded, publishDate, Now,
                                         thresholdArg)])
    /\ UNCHANGED <<pc, shopProduct, shopOrders, shopCalls, request, currentDate, locals, response, serviceVars>>

StaleAnalysisReturn ==
    /\ staleCall # Undefined
    /\ staleCall' = Undefined
    /\ UNCHANGED <<pc, shopProduct, shopOrders, shopCalls, request, currentDate, locals, response, serviceVars>>

NextStale == StaleAnalysisCall \/ StaleAnalysisReturn

SpecStale == InitStale /\ [][NextStale]_vars

-----------------------------------------------------------------------------
(* POST products/ai-data/:productId/:variantId: the controller's
   getAIVariantData, src/unnamed/part_001 lines 333-374, over
   generateAIProductData, lines 793-854 *)

\* A variant id the product reply does not hold
AbsentVariant == "v9"

\* The product reply: the other variant first, the target variant second
AiProducts ==
    {[tags |-> tags, product_type |-> type, title |-> Undefined,
      variants |-> <<OtherVariantRecord,
                     [id |-> TargetVariant, inventory_quantity |-> Some(5),
                      price |-> Some(2000)]>>]
        : tags \in {Undefined, Some(<<>>), Some(Str.tags_SummerFashion),
                    Some(Str.tags_FashionFurniture), Some(Str.tags_Seafood), Some(Str.tags_Gift)},
          type \in {Undefined, Some(Str.Clothing), Some(Str.Gadgets), Some(Str.constructor)}}

RequestedProduct == "p1"

\* An order: the product of its line item, the number of its refunds, its
\* customer if any and its shipping amount (in cents) if any
AiOrder(productId, refunds, customer, shipping) ==
    [line_items |-> <<[product_id |-> productId]>>, refunds |-> refunds,
     customer |-> customer, shipping |-> shipping]

\* The orders reply; undefined for a fetch that fails
AiOrderReplies ==
    {Undefined, Some(<<>>),
     Some(<<AiOrder(RequestedProduct, 1, Some("c1"), Some(500)),
            AiOrder("p2", 1, Some("c3"), Some(900)),
            AiOrder(RequestedProduct, 0, Some("c1"), Undefined),
            AiOrder(RequestedProduct, 0, Some("c2"), Some(0))>>)}

\* allOrders.filter(order => order.line_items?.some(item => item.product_id == productId))
FilterProductOrders(orders, productId) ==
    SelectSeq(orders, LAMBDA order :
        \E i \in 1..Len(order.line_items) : order.line_items[i].product_id = productId)

\* What the classification service does when called: the fetch rejects or
\* answers non-2xx; the body is not JSON; the JSON has none of the six
\* places populated, an empty string in the first and a category in the
\* second, or a category in the first
ClassifyOutcomes ==
    {[ok |-> FALSE, result |-> Undefined],
     [ok |-> TRUE, result |-> Undefined],
     [ok |-> TRUE, result |-> Some(<<Undefined, Undefined, Undefined, Undefined, Undefined, Undefined>>)],
     [ok |-> TRUE, result |-> Some(<<Some(<<>>), Some(Str.books), Undefined, Undefined, Undefined, Undefined>>)],
     [ok |-> TRUE, result |-> Some(<<Some(Str.toys), Undefined, Undefined, Undefined, Undefined, Undefined>>)]}

\* What the strategy service does when called
PredictOutcomes ==
    {[ok |-> FALSE, result |-> Undefined],
     [ok |-> TRUE, result |-> Undefined],
     [ok |-> TRUE, result |-> Some([strategy |-> "subscription"])]}

AiUrls == {Undefined, Some("https://ai.example")}

\* !value of a string taken from the request body
Missing(value) == value = Undefined \/ value[1] = ""

\* An upstream call and what came of it: [ok, result]
UpstreamCall(endpoint, reply) == [endpoint |-> endpoint, reply |-> reply]

\* A GET of the client of createClientWithCredentials: to the shop of the
\* request, with its access token in the X-Shopify-Access-Token header
ShopifyCall(endpoint, reply, req) ==
    [endpoint |-> endpoint, reply |-> reply, host |-> req.shopDomain[1], token |-> req.accessToken, body |-> Undefined]

\* The POSTs to the AI service at url, with their JSON body and no token in
\* their headers
Calls(endpoints, reply, url, body) ==
    [i \in 1..Len(endpoints) |-> [endpoint |-> endpoints[i], reply |-> reply, host |-> url[1], token |-> Undefined, body |-> Some(body)]]

\* requestPayload of getProductCategoryFromAI, lines 884-918: the product
\* without its variants, and the searchParams
ClassifyRequest(product, shopDomain, accessToken) ==
    [data |-> [products |-> <<[title |-> product.title, product_type |-> product.product_type, tags |-> product.tags]>>,
               count |-> 1,
               searchParams |-> [shopDomain |-> shopDomain, accessToken |-> accessToken, title |-> product.title, limit |-> 100]],
     searchParams |-> [filters |-> [price_range |-> Undefined], sorting |-> Undefined]]

\* The bodies the controller returns
MissingCredentialsBody(example) ==
    [error |-> "Missing required credentials", required |-> <<"shopDomain", "accessToken">>,
     example |-> example]
SuccessBody(message, data) == [message |-> message, data |-> data]
FailureBody(error, details) == [error |-> error, details |-> details]

AiRequests ==
    [shopDomain : {Undefined, Some(""), Some("shop.myshopify.com")},
     accessToken : {Undefined, Some("token")},
     variantId : {TargetVariant, AbsentVariant}]

\* The controller receives the request and checks the credentials, lines
\* 339-351
ReceiveAiData ==
    /\ aiPc = "idle"
    /\ \E req \in AiRequests :
          /\ aiReq' = Some(req)
          /\ IF Missing(req.shopDomain) \/ Missing(req.accessToken)
             THEN /\ aiResponse' = Some(MissingCredentialsBody(
                                          Some([shopDomain |-> "your-shop.myshopify.com",
                                                accessToken |-> "your_access_token_here"])))
                  /\ aiPc' = "done"
             ELSE /\ aiResponse' = aiResponse
                  /\ aiPc' = "product"
    /\ UNCHANGED <<aiUrl, aiProduct, aiResolved, aiOrders, aiPayload, aiCalls>>
    /\ UNCHANGED <<analyticsVars, suggestCall, paging, api, ltv, flight>>

\* client.get products/{productId}, lines 803-806; a failure is thrown, and
\* caught by the controller, lines 364-373
FetchAiProduct ==
    /\ aiPc = "product"
    /\ \E reply \in {Undefined} \cup {Some(product) : product \in AiProducts} :
          /\ aiCalls' = Append(aiCalls, ShopifyCall("products",
                                    [ok |-> reply # Undefined, result |-> Undefined], aiReq[1]))
          /\ IF reply = Undefined
             THEN /\ aiResponse' = Some(FailureBody("Failed to generate AI product data",
                                                    "Shopify API error"))
                  /\ aiPc' = "done"
                  /\ aiProduct' = aiProduct
             ELSE /\ aiProduct' = reply
                  /\ aiPc' = "category"
                  /\ aiResponse' = aiResponse
    /\ UNCHANGED <<aiUrl, aiReq, aiResolved, aiOrders, aiPayload>>
    /\ UNCHANGED <<analyticsVars, suggestCall, paging, api, ltv, flight>>

\* getProductCategoryFromAI, lines 809-813
ResolveCategory ==
    /\ aiPc = "category"
    /\ \E classify \in ClassifyOutcomes :
          LET resolved == getProductCategoryFromAI(aiProduct[1], aiUrl, classify)
          IN /\ aiResolved' = Some(resolved.category)
             /\ aiCalls' = aiCalls \o Calls(resolved.calls, classify, aiUrl,
                                             ClassifyRequest(aiProduct[1], aiReq[1].shopDomain[1], aiReq[1].accessToken[1]))
    /\ aiPc' = "orders"
    /\ UNCHANGED <<aiUrl, aiReq, aiProduct, aiOrders, aiPayload, aiResponse>>
    /\ UNCHANGED <<analyticsVars, suggestCall, paging, api, ltv, flight>>

\* client.get orders and the filter on the product, lines 817-827
FetchAiOrders ==
    /\ aiPc = "orders"
    /\ \E reply \in AiOrderReplies :
          /\ aiCalls' = Append(aiCalls, ShopifyCall("orders",
                                    [ok |-> reply # Undefined, result |-> Undefined], aiReq[1]))
          /\ IF reply = Undefined
             THEN /\ aiResponse' = Some(FailureBody("Failed to generate AI product data",
                                                    "Shopify API error"))
                  /\ aiPc' = "done"
                  /\ aiOrders' = aiOrders
             ELSE /\ aiOrders' = Some(FilterProductOrders(reply[1], RequestedProduct))
                  /\ aiPc' = "metrics"
                  /\ aiResponse' = aiResponse
    /\ UNCHANGED <<aiUrl, aiReq, aiProduct, aiResolved, aiPayload>>
    /\ UNCHANGED <<analyticsVars, suggestCall, paging, api, ltv, flight>>

\* calculateAIMetrics, lines 831-836; its TypeError is caught by the
\* controller
ComputeAiMetrics ==
    /\ aiPc = "metrics"
    /\ LET metrics == calculateAIMetrics(aiProduct[1], aiOrders[1], Some(aiReq[1].variantId),
                                         aiResolved[1])
       IN IF metrics.threw
          THEN /\ aiResponse' = Some(FailureBody("Failed to generate AI product data",
                                                 "externalCategory.toLowerCase is not a function"))
               /\ aiPc' = "done"
               /\ aiPayload' = aiPayload
          ELSE /\ aiPayload' = metrics.value
               /\ aiPc' = "strategy"
               /\ aiResponse' = aiResponse
    /\ UNCHANGED <<aiUrl, aiReq, aiProduct, aiResolved, aiOrders, aiCalls>>
    /\ UNCHANGED <<analyticsVars, suggestCall, paging, api, ltv, flight>>

\* getStrategyPrediction, line 840, and the controller's return, lines 360-363
PredictStrategy ==
    /\ aiPc = "strategy"
    /\ \E predict \in PredictOutcomes :
          LET prediction == getStrategyPrediction(aiPayload[1], aiUrl, predict)
          IN /\ aiResponse' = Some(SuccessBody("AI product data generated successfully",
                                               prediction.value))
             /\ aiCalls' = aiCalls \o Calls(prediction.calls, predict, aiUrl, aiPayload[1])
    /\ aiPc' = "done"
    /\ UNCHANGED <<aiUrl, aiReq, aiProduct, aiResolved, aiOrders, aiPayload>>
    /\ UNCHANGED <<analyticsVars, suggestCall, paging, api, ltv, flight>>

\* The controller has answered; the service keeps nothing of the request
AiRespond ==
    /\ aiPc = "done"
    /\ aiPc' = "idle"
    /\ aiReq' = Undefined
    /\ aiProduct' = Undefined
    /\ aiResolved' = Undefined
    /\ aiOrders' = Undefined
    /\ aiPayload' = Undefined
    /\ aiCalls' = <<>>
    /\ aiResponse' = Undefined
    /\ UNCHANGED <<aiUrl, analyticsVars, suggestCall, paging, api, ltv, flight>>

\* No variant analytics request and no direct call
AnalyticsIdle ==
    /\ pc = "idle"
    /\ shopProduct = DefaultProduct
    /\ shopOrders = <<>>
    /\ shopCalls = <<>>
    /\ request = Undefined
    /\ currentDate = 0
    /\ locals = Undefined
    /\ response = Undefined
    /\ staleCall = Undefined

InitAi ==
    /\ AnalyticsIdle
    /\ \E url \in AiUrls : ServicesInit(url)

\* POST variant-analytics/:productId/:variantId for a variant the product
\* does not have
getAbsentVariantAnalytics ==
    \E req \in VariantRequests : getVariantAnalyticsFor([req EXCEPT !.variantId = AbsentVariant])

NextAi ==
    \/ ReceiveAiData
    \/ FetchAiProduct
    \/ ResolveCategory
    \/ FetchAiOrders
    \/ ComputeAiMetrics
    \/ PredictStrategy
    \/ AiRespond
    \/ getAbsentVariantAnalytics

SpecAi == InitAi /\ [][NextAi]_vars

-----------------------------------------------------------------------------
(* Direct calls of generateVariantSuggestions: the suggestion engine on its
   own, over prices in whole cents that the 15 percent increase rounds up,
   rounds down and leaves whole *)

\* variant.price: absent, 0.00, 0.01, 0.10, 0.33, 19.99, 20.00
SuggestPrices == {Undefined, Some(0), Some(1), Some(10), Some(33), Some(1999), Some(2000)}
SuggestRates == {Num(0), <<3, 2>>, Num(5), <<15, 2>>, Num(10), Num(20)}
SuggestThresholds == {5, 10}
SuggestRevenues == {0, 2000}

InitSuggest ==
    /\ pc = "idle"
    /\ shopProduct = DefaultProduct
    /\ shopOrders = <<>>
    /\ shopCalls = <<>>
    /\ request = Undefined
    /\ currentDate = 0
    /\ locals = Undefined
    /\ response = Undefined
    /\ staleCall = Undefined
    /\ ServicesInit(Undefined)

SuggestionsCall ==
    /\ suggestCall = Undefined
    /\ \E price \in SuggestPrices, monthlySalesRate \in SuggestRates,
          staleThreshold \in SuggestThresholds, totalRevenue \in SuggestRevenues,
          currentInventory \in Inventories :
          LET variant == [id |-> TargetVariant, inventory_quantity |-> Some(currentInventory),
                          price |-> price]
              daysOfStockRemaining ==
                  IF REq(monthlySalesRate, Num(0)) THEN Num(0)
                  ELSE RDiv(Num(currentInventory * DAYS_PER_MONTH), monthlySalesRate)
              staleAnalysis ==
                  calculatePercentageBasedStaleAnalysis(0, currentInventory, Now, Now,
                                                        Some(staleThreshold))
          IN suggestCall' =
                 Some([variant |-> variant,
                       monthlySalesRate |-> monthlySalesRate,
                       staleThreshold |-> staleThreshold,
                       totalRevenue |-> totalRevenue,
                       ret |-> generateVariantSuggestions(
                                   variant, monthlySalesRate, staleThreshold, currentInventory,
                                   daysOfStockRemaining, totalRevenue, Num(0), Num(0),
                                   staleAnalysis)])
    /\ UNCHANGED <<analyticsVars, aiVars, paging, api, ltv, flight>>

SuggestionsReturn ==
    /\ suggestCall # Undefined
    /\ suggestCall' = Undefined
    /\ UNCHANGED <<analyticsVars, aiVars, paging, api, ltv, flight>>

NextSuggest == SuggestionsCall \/ SuggestionsReturn

SpecSuggest == InitSuggest /\ [][NextSuggest]_vars

-----------------------------------------------------------------------------
(* The variant analytics request on a shop around the documented example: a
   product published 60 days ago with 50 units in stock, and an order of ten
   units at 20.00 placed 30 days ago *)

ItemTen == [variant_id |-> TargetVariant, quantity |-> Some(10), price |-> 2000]

\* The order of the example, the same order 45 days ago, an order of the other
\* variant, and an order of both variants
ExampleOrders ==
    [created_at : {Now - 30 * TicksPerDay, Now - 45 * TicksPerDay}, line_items : {<<ItemTen>>}]
    \cup [created_at : {Now - 30 * TicksPerDay}, line_items : {<<ItemOther>>, <<ItemOther, ItemTen>>}]

\* published_at 60 days ago, or absent on a product created 60 days ago
ExampleProducts ==
    {[published_at |-> pub, created_at |-> Now - 60 * TicksPerDay,
      variants |-> <<OtherVariantRecord,
                     [id |-> TargetVariant, inventory_quantity |-> Some(inv), price |-> price]>>]
        : pub \in {Undefined, Some(Now - 60 * TicksPerDay)}, inv \in {5, 50}, price \in Prices}

InitExample ==
    /\ pc = "idle"
    /\ shopProduct \in ExampleProducts
    /\ shopOrders = <<>>
    /\ shopCalls = <<>>
    /\ request = Undefined
    /\ currentDate = 0
    /\ locals = Undefined
    /\ response = Undefined
    /\ staleCall = Undefined
    /\ ServicesInit(Undefined)

PlaceExampleOrder ==
    /\ pc = "idle"
    /\ Len(shopOrders) < MaxOrders
    /\ \E order \in ExampleOrders : shopOrders' = Append(shopOrders, order)
    /\ UNCHANGED <<pc, shopProduct, shopCalls, request, currentDate, locals, response, staleCall, serviceVars>>

NextExample == PlaceExampleOrder \/ getVariantAnalytics \/ Respond

SpecExample == InitExample /\ [][NextExample]_vars

-----------------------------------------------------------------------------
(* getAllProducts, lines 178-222: the loop that pages through the shop's
   products.  Each product list is modelled by its length. *)

\* products.length of a page the shop can serve under limit: 250
PageLengths == {0, 1, PAGE_LIMIT - 1, PAGE_LIMIT}

\* response.headers.link: absent, or the page_info of its rel="next" and
\* rel="previous" links (<<>> for a link that is absent or carries no
\* page_info)
LinkHeaders ==
    {Undefined}
        \cup {Some([next |-> next, previous |-> previous])
                : next \in {Undefined, Some(""), Some("n")}, previous \in {Undefined, Some("p")}}

\* !!value of an optional string
Truthy(value) == value # Undefined /\ value[1] # ""

extractPagination(linkHeader) ==
    IF linkHeader = Undefined
    THEN [hasNext |-> FALSE, hasPrevious |-> FALSE,
          nextPageInfo |-> Undefined, prevPageInfo |-> Undefined]
    ELSE LET links == linkHeader[1]
         IN  [hasNext |-> Truthy(links.next),
              hasPrevious |-> Truthy(links.previous),
              nextPageInfo |-> IF Truthy(links.next) THEN links.next ELSE Undefined,
              prevPageInfo |-> IF Truthy(links.previous) THEN links.previous ELSE Undefined]

\* The loop without its page ceiling
ContinuePaging_NoCeiling(hasNextPage, pageCount) == hasNextPage

\* The condition of the while loop, line 187
ContinuePaging(hasNextPage, pageCount) == hasNextPage /\ pageCount < MAX_PAGES

\* Lines 182-185; fetches counts the client.get calls issued, lastPage is the
\* last response received
CallGetAllProducts ==
    /\ paging = Undefined
    /\ paging' = Some([at |-> "loop", allProducts |-> 0, pageInfo |-> Undefined,
                       hasNextPage |-> TRUE, pageCount |-> 0, fetches |-> 0,
                       lastPage |-> Undefined])
    /\ UNCHANGED <<analyticsVars, suggestCall, aiVars, api, ltv, flight>>

\* One iteration of the loop, lines 187-216: client.get throws (the shop
\* answered with an error) or returns a page
FetchPage ==
    /\ paging # Undefined
    /\ paging[1].at = "loop"
    /\ ContinuePaging(paging[1].hasNextPage, paging[1].pageCount)
    /\ \/ paging' = Some([paging[1] EXCEPT !.at = "threw", !.fetches = @ + 1])
       \/ \E products \in PageLengths, link \in LinkHeaders :
             LET pagination == extractPagination(link)
             IN  paging' = Some([at |-> "loop",
                                 allProducts |-> paging[1].allProducts + products,
                                 pageInfo |-> pagination.nextPageInfo,
                                 hasNextPage |-> IF products < PAGE_LIMIT
                                                 THEN FALSE
                                                 ELSE pagination.hasNext,
                                 pageCount |-> paging[1].pageCount + 1,
                                 fetches |-> paging[1].fetches + 1,
                                 lastPage |-> Some([products |-> products, link |-> link])])
    /\ UNCHANGED <<analyticsVars, suggestCall, aiVars, api, ltv, flight>>

\* The loop is left and allProducts returned, lines 218-221
ReturnAllProducts ==
    /\ paging # Undefined
    /\ paging[1].at = "loop"
    /\ ~ContinuePaging(paging[1].hasNextPage, paging[1].pageCount)
    /\ paging' = Some([paging[1] EXCEPT !.at = "returned"])
    /\ UNCHANGED <<analyticsVars, suggestCall, aiVars, api, ltv, flight>>

\* The service with no request and no call in progress
InitServices ==
    /\ AnalyticsIdle
    /\ ServicesInit(Undefined)

NextPages ==
    \/ CallGetAllProducts
    \/ FetchPage
    \/ ReturnAllProducts

SpecPages == InitServices /\ [][NextPages]_vars

\* Every call of getAllProducts ends: a step is taken whenever one is possible
FairSpecPages == SpecPages /\ WF_vars(NextPages)

-----------------------------------------------------------------------------
(* The controllers.  Every handler has the same shape: it checks the fields
   it requires, calls its service inside a try block and answers from the
   catch block when the service throws.  A handler is described by what the
   source says at each of these places:
     fields            the fields of the body (or query) the model varies
     checked           the fields of its `if (!a || !b)` check
     missing           how it answers when the check fails: the body it
                       returns, or the Error it throws
     criteria          the fields of a second `if (!a && !b)` check
     service, upstream the service method called, and whether that method
                       calls the shop
     caught            how the catch block answers
     failure           the `error` of the catch block's body
   What a handler returns when its service returns is kept to a message. *)

\* ProductsController, part_001 lines 57-459
ProductsHandlers ==
    <<[handler |-> "getProducts", route |-> "POST /products/fetch",
       fields |-> <<"shopDomain", "accessToken">>,
       checked |-> <<"shopDomain", "accessToken">>,
       missing |-> Some([via |-> "return", body |->
           [error |-> "Missing required credentials", required |-> <<"shopDomain", "accessToken">>,
            example |-> [shopDomain |-> "your-shop.myshopify.com",
                accessToken |-> "your_access_token_here", limit |-> 10,
                    search |-> "optional_search_term"]]]),
       criteria |-> <<>>, missingCriteria |-> Undefined,
       service |-> <<"getProductsFromShopifyWithCredentials">>, upstream |-> TRUE,
       caught |-> "return", failure |-> "Failed to retrieve products"],
      [handler |-> "searchProducts", route |-> "POST /products/search",
       fields |-> <<"shopDomain", "accessToken">>,
       checked |-> <<"shopDomain", "accessToken">>,
       missing |-> Some([via |-> "return", body |->
           [error |-> "Missing required credentials", required |-> <<"shopDomain", "accessToken">>,
            example |-> [shopDomain |-> "your-shop.myshopify.com",
                accessToken |-> "your_access_token_here", search |-> "blue shirt",
                    price_min |-> 10, price_max |-> 100, sku |-> "SHIRT-L-BLUE",
                        sort_by |-> "price", sort_order |-> "asc"]]]),
       criteria |-> <<>>, missingCriteria |-> Undefined,
       service |-> <<"searchProductsAdvanced">>, upstream |-> TRUE,
       caught |-> "return", failure |-> "Failed to search products"],
      [handler |-> "searchVariants", route |-> "POST /products/search-variants",
       fields |-> <<"shopDomain", "accessToken", "sku", "barcode">>,
       checked |-> <<"shopDomain", "accessToken">>,
       missing |-> Some([via |-> "return", body |->
           [error |-> "Missing required credentials", required |-> <<"shopDomain",
               "accessToken">>]]),
       criteria |-> <<"sku", "barcode">>, missingCriteria |->
           Some([error |-> "Missing search criteria", required |-> <<"sku OR barcode">>,
            example |-> [shopDomain |-> "your-shop.myshopify.com",
                accessToken |-> "your_access_token_here", sku |-> "SHIRT-L-BLUE",
                    barcode |-> "123456789012"]]),
       service |-> <<"searchProductsByVariants">>, upstream |-> TRUE,
       caught |-> "return", failure |-> "Failed to search variants"],
      [handler |-> "getProduct", route |-> "POST /products/fetch/:productId",
       fields |-> <<"shopDomain", "accessToken">>,
       checked |-> <<"shopDomain", "accessToken">>,
       missing |-> Some([via |-> "return", body |->
           [error |-> "Missing required credentials", required |-> <<"shopDomain",
               "accessToken">>]]),
       criteria |-> <<>>, missingCriteria |-> Undefined,
       service |-> <<"getProductFromShopifyWithCredentials">>, upstream |-> TRUE,
       caught |-> "return", failure |-> "Failed to retrieve product"],
      [handler |-> "getVariant", route |-> "POST /products/variant/:variantId",
       fields |-> <<"shopDomain", "accessToken">>,
       checked |-> <<"shopDomain", "accessToken">>,
       missing |-> Some([via |-> "return", body |->
           [error |-> "Missing required credentials", required |-> <<"shopDomain", "accessToken">>,
            example |-> [shopDomain |-> "your-shop.myshopify.com",
                accessToken |-> "your_access_token_here"]]]),
       criteria |-> <<>>, missingCriteria |-> Undefined,
       service |-> <<"getVariantFromShopifyWithCredentials">>, upstream |-> TRUE,
       caught |-> "return", failure |-> "Failed to retrieve variant"],
      [handler |-> "getProductCount", route |-> "POST /products/count",
       fields |-> <<"shopDomain", "accessToken">>,
       checked |-> <<"shopDomain", "accessToken">>,
       missing |-> Some([via |-> "return", body |->
           [error |-> "Missing required credentials", required |-> <<"shopDomain",
               "accessToken">>]]),
       criteria |-> <<>>, missingCriteria |-> Undefined,
       service |-> <<"getProductCountWithCredentials">>, upstream |-> TRUE,
       caught |-> "return", failure |-> "Failed to retrieve product count"],
      [handler |-> "getAIVariantData", route |-> "POST /products/ai-data/:productId/:variantId",
       fields |-> <<"shopDomain", "accessToken">>,
       checked |-> <<"shopDomain", "accessToken">>,
       missing |-> Some([via |-> "return", body |->
           [error |-> "Missing required credentials", required |-> <<"shopDomain", "accessToken">>,
            example |-> [shopDomain |-> "your-shop.myshopify.com",
                accessToken |-> "your_access_token_here"]]]),
       criteria |-> <<>>, missingCriteria |-> Undefined,
       service |-> <<"generateAIProductData">>, upstream |-> TRUE,
       caught |-> "return", failure |-> "Failed to generate AI product data"],
      [handler |-> "getVariantAnalytics",
          route |-> "POST /products/variant-analytics/:productId/:variantId",
       fields |-> <<"shopDomain", "accessToken">>,
       checked |-> <<"shopDomain", "accessToken">>,
       missing |-> Some([via |-> "return", body |->
           [error |-> "Missing required credentials", required |-> <<"shopDomain", "accessToken">>,
            example |-> [shopDomain |-> "your-shop.myshopify.com",
                accessToken |-> "your_access_token_here", stale_threshold |-> 2]]]),
       criteria |-> <<>>, missingCriteria |-> Undefined,
       service |-> <<"generateFocusedVariantAnalytics">>, upstream |-> TRUE,
       caught |-> "return", failure |-> "Failed to generate variant analytics"],
      [handler |-> "getProductAnalytics", route |-> "POST /products/analytics",
       fields |-> <<"shopDomain", "accessToken">>,
       checked |-> <<"shopDomain", "accessToken">>,
       missing |-> Some([via |-> "return", body |->
           [error |-> "Missing required credentials", required |-> <<"shopDomain",
               "accessToken">>]]),
       criteria |-> <<>>, missingCriteria |-> Undefined,
       service |-> <<"calculateProductAnalyticsWithCredentials">>, upstream |-> TRUE,
       caught |-> "return", failure |-> "Failed to calculate product analytics"]>>

\* OrdersController, part_002 lines 3460-3610
OrdersHandlers ==
    <<[handler |-> "getOrders", route |-> "POST /orders/fetch",
       fields |-> <<"shopDomain", "accessToken">>,
       checked |-> <<"shopDomain", "accessToken">>,
       missing |-> Some([via |-> "return", body |->
           [error |-> "Missing required credentials", required |-> <<"shopDomain", "accessToken">>,
            example |-> [shopDomain |-> "your-shop.myshopify.com",
                accessToken |-> "your_access_token_here", limit |-> 10, status |-> "paid"]]]),
       criteria |-> <<>>, missingCriteria |-> Undefined,
       service |-> <<"getOrdersFromShopifyWithCredentials">>, upstream |-> TRUE,
       caught |-> "return", failure |-> "Failed to retrieve orders"],
      [handler |-> "getOrder", route |-> "POST /orders/fetch/:orderId",
       fields |-> <<"shopDomain", "accessToken">>,
       checked |-> <<"shopDomain", "accessToken">>,
       missing |-> Some([via |-> "return", body |->
           [error |-> "Missing required credentials", required |-> <<"shopDomain",
               "accessToken">>]]),
       criteria |-> <<>>, missingCriteria |-> Undefined,
       service |-> <<"getOrderFromShopifyWithCredentials">>, upstream |-> TRUE,
       caught |-> "return", failure |-> "Failed to retrieve order"],
      [handler |-> "getOrderCount", route |-> "POST /orders/count",
       fields |-> <<"shopDomain", "accessToken">>,
       checked |-> <<"shopDomain", "accessToken">>,
       missing |-> Some([via |-> "return", body |->
           [error |-> "Missing required credentials", required |-> <<"shopDomain",
               "accessToken">>]]),
       criteria |-> <<>>, missingCriteria |-> Undefined,
       service |-> <<"getOrderCountWithCredentials">>, upstream |-> TRUE,
       caught |-> "return", failure |-> "Failed to retrieve order count"],
      [handler |-> "getOrderAnalytics", route |-> "POST /orders/analytics",
       fields |-> <<"shopDomain", "accessToken">>,
       checked |-> <<"shopDomain", "accessToken">>,
       missing |-> Some([via |-> "return", body |->
           [error |-> "Missing required credentials", required |-> <<"shopDomain",
               "accessToken">>]]),
       criteria |-> <<>>, missingCriteria |-> Undefined,
       service |-> <<"calculateOrderAnalyticsWithCredentials">>, upstream |-> TRUE,
       caught |-> "return", failure |-> "Failed to calculate order analytics"]>>

\* CustomersController, customers.service.ts lines 204-321
CustomersHandlers ==
    <<[handler |-> "getCustomers", route |-> "POST /customers/fetch",
       fields |-> <<"shopDomain", "accessToken">>,
       checked |-> <<"shopDomain", "accessToken">>,
       missing |-> Some([via |-> "return", body |->
           [error |-> "Missing required credentials", required |-> <<"shopDomain", "accessToken">>,
            example |-> [shopDomain |-> "your-shop.myshopify.com",
                accessToken |-> "your_access_token_here", limit |-> 10, search |-> "john"]]]),
       criteria |-> <<>>, missingCriteria |-> Undefined,
       service |-> <<"getCustomersFromShopifyWithCredentials">>, upstream |-> TRUE,
       caught |-> "return", failure |-> "Failed to retrieve customers"],
      [handler |-> "getCustomer", route |-> "POST /customers/fetch/:customerId",
       fields |-> <<"shopDomain", "accessToken">>,
       checked |-> <<"shopDomain", "accessToken">>,
       missing |-> Some([via |-> "return", body |->
           [error |-> "Missing required credentials", required |-> <<"shopDomain",
               "accessToken">>]]),
       criteria |-> <<>>, missingCriteria |-> Undefined,
       service |-> <<"getCustomerFromShopifyWithCredentials">>, upstream |-> TRUE,
       caught |-> "return", failure |-> "Failed to retrieve customer"],
      [handler |-> "getCustomerAnalytics", route |-> "POST /customers/analytics",
       fields |-> <<"shopDomain", "accessToken">>,
       checked |-> <<"shopDomain", "accessToken">>,
       missing |-> Some([via |-> "return", body |->
           [error |-> "Missing required credentials", required |-> <<"shopDomain",
               "accessToken">>]]),
       criteria |-> <<>>, missingCriteria |-> Undefined,
       service |-> <<"calculateCustomerAnalyticsWithCredentials">>, upstream |-> TRUE,
       caught |-> "return", failure |-> "Failed to calculate customer analytics"]>>

\* AuthController, part_002 lines 2937-3279.  handleCallback answers through
\* the response object; received is computed from the query, see MissingAnswer
AuthHandlers ==
    <<[handler |-> "initiateOAuth", route |-> "POST /auth/initiate",
       fields |-> <<"shopDomain">>,
       checked |-> <<"shopDomain">>,
       missing |-> Some([via |-> "return", body |->
           [error |-> "Missing shop domain", required |-> <<"shopDomain">>,
            example |-> [shopDomain |-> "your-shop.myshopify.com",
                state |-> "optional_state_parameter"]]]),
       criteria |-> <<>>, missingCriteria |-> Undefined,
       service |-> <<"generateOAuthUrl">>, upstream |-> FALSE,
       caught |-> "return", failure |-> "Failed to initiate OAuth"],
      [handler |-> "exchangeToken", route |-> "POST /auth/exchange-token",
       fields |-> <<"code", "shopDomain">>,
       checked |-> <<"code", "shopDomain">>,
       missing |-> Some([via |-> "return", body |->
           [error |-> "Missing required parameters", required |-> <<"code", "shopDomain">>,
            example |-> [shopDomain |-> "your-shop.myshopify.com",
                code |-> "authorization_code_from_callback",
                    state |-> "optional_state_parameter"]]]),
       criteria |-> <<>>, missingCriteria |-> Undefined,
       service |-> <<"exchangeCodeForToken">>, upstream |-> TRUE,
       caught |-> "return", failure |-> "Token exchange failed"],
      [handler |-> "completeOAuth", route |-> "POST /auth/complete-oauth",
       fields |-> <<"shopDomain">>,
       checked |-> <<"shopDomain">>,
       missing |-> Some([via |-> "return", body |->
           [error |-> "Missing shop domain", required |-> <<"shopDomain">>]]),
       criteria |-> <<>>, missingCriteria |-> Undefined,
       service |-> <<"generateOAuthUrl">>, upstream |-> FALSE,
       caught |-> "return", failure |-> "Failed to complete OAuth"],
      [handler |-> "handleCallback", route |-> "GET /auth/callback",
       fields |-> <<"code", "shop", "state">>,
       checked |-> <<"code", "shop">>,
       missing |-> Some([via |-> "res.status(400).json", body |->
           [error |-> "Missing required parameters", required |-> <<"code", "shop">>,
            received |-> [code |-> TRUE, shop |-> TRUE, state |-> TRUE]]]),
       criteria |-> <<>>, missingCriteria |-> Undefined,
       service |-> <<"exchangeCodeForToken">>, upstream |-> TRUE,
       caught |-> "res.status(500).json", failure |-> "OAuth callback failed"],
      [handler |-> "validateToken", route |-> "POST /auth/validate",
       fields |-> <<"shopDomain", "accessToken">>,
       checked |-> <<"shopDomain", "accessToken">>,
       missing |-> Some([via |-> "return", body |->
           [error |-> "Missing required parameters", required |-> <<"shopDomain", "accessToken">>,
            example |-> [shopDomain |-> "your-shop.myshopify.com",
                accessToken |-> "shpat_xxxxxxxxxxxxxxxxxxxxxxxxxxxxxxxx"]]]),
       criteria |-> <<>>, missingCriteria |-> Undefined,
       service |-> <<"validateAccessToken">>, upstream |-> TRUE,
       caught |-> "return", failure |-> "Token validation failed"],
      [handler |-> "getShopInfo", route |-> "POST /auth/shop-info",
       fields |-> <<"shopDomain", "accessToken">>,
       checked |-> <<"shopDomain", "accessToken">>,
       missing |-> Some([via |-> "return", body |->
           [error |-> "Missing required parameters", required |-> <<"shopDomain",
               "accessToken">>]]),
       criteria |-> <<>>, missingCriteria |-> Undefined,
       service |-> <<"getShopInfo">>, upstream |-> TRUE,
       caught |-> "return", failure |-> "Failed to get shop information"],
      [handler |-> "testOAuthSetup", route |-> "GET /auth/test",
       fields |-> <<>>,
       checked |-> <<>>,
       missing |-> Undefined,
       criteria |-> <<>>, missingCriteria |-> Undefined,
       service |-> <<>>, upstream |-> FALSE,
       caught |-> "none", failure |-> ""]>>

\* SimpleLtvCacController, part_000 lines 9-72: the missing credentials are
\* thrown as an Error inside the try block, and the catch block throws an
\* HttpException
LtvCacHandlers ==
    <<[handler |-> "analyzeLtvCac", route |-> "POST /ltv-cac/analyze",
       fields |-> <<"shopDomain", "accessToken">>,
       checked |-> <<"shopDomain", "accessToken">>,
       missing |-> Some([via |-> "throw",
           body |-> [message |-> "Shop domain and access token are required"]]),
       criteria |-> <<>>, missingCriteria |-> Undefined,
       service |-> <<"fetchShopifyData">>, upstream |-> TRUE,
       caught |-> "throw HttpException", failure |-> "LTV/CAC Analysis Failed"]>>


Handlers ==
    ProductsHandlers \o OrdersHandlers \o CustomersHandlers \o AuthHandlers \o LtvCacHandlers

\* How the catch block of handler h answers an error whose message is given
Caught(h, message) ==
    IF h.caught = "throw HttpException"
    THEN [via |-> h.caught, body |-> [status |-> 400, error |-> h.failure, message |-> message]]
    ELSE [via |-> h.caught, body |-> FailureBody(h.failure, message)]

\* How handler h answers a request whose checked fields are not all there
MissingAnswer(h, req) ==
    LET answer == h.missing[1]
    IN  IF answer.via = "throw"
        THEN Caught(h, answer.body.message)
        ELSE IF "received" \in DOMAIN answer.body
        THEN [answer EXCEPT !.body.received = [f \in DOMAIN req |-> ~Missing(req[f])]]
        ELSE answer

\* No request at a controller
ApiIdle == api = Undefined

\* A request arrives at a handler, which checks it: lines 69-82 of getProducts
\* and the like
HandleRequest ==
    /\ ApiIdle
    /\ \E i \in DOMAIN Handlers :
          LET h      == Handlers[i]
              names  == {h.fields[k] : k \in DOMAIN h.fields}
              absent(list, req) == {k \in DOMAIN list : Missing(req[list[k]])}
          IN  \E req \in [names -> {Undefined, Some(""), Some("given")}] :
                 LET call == [handler |-> h, body |-> req, calls |-> <<>>, service |-> "none"]
                 IN  api' = Some(
                        IF absent(h.checked, req) # {}
                        THEN call @@ [at |-> "done", response |-> MissingAnswer(h, req)]
                        ELSE IF h.criteria # <<>> /\ absent(h.criteria, req) = DOMAIN h.criteria
                        THEN call @@ [at |-> "done",
                                      response |-> [via |-> "return", body |-> h.missingCriteria[1]]]
                        ELSE IF h.service = Undefined
                        THEN call @@ [at |-> "done",
                                      response |-> [via |-> "return",
                                                    body |-> [message |-> h.route]]]
                        ELSE call @@ [at |-> "service", response |-> Undefined])
    /\ UNCHANGED <<analyticsVars, suggestCall, aiVars, paging, ltv, flight>>

\* The service call returns or throws, lines 84-103 of getProducts and the
\* like; a service that calls the shop throws when the shop answers with an
\* error
CallService ==
    /\ ~ApiIdle
    /\ api[1].at = "service"
    /\ \E ok \in BOOLEAN :
          LET h     == api[1].handler
              calls == IF h.upstream
                       THEN <<UpstreamCall(h.service[1], [ok |-> ok, result |-> Undefined])>>
                       ELSE <<>>
          IN  api' = Some([api[1] EXCEPT
                             !.at = "done",
                             !.calls = calls,
                             !.service = IF ok THEN "returned" ELSE "threw",
                             !.response =
                                 IF ok
                                 THEN [via |-> IF h.caught = "res.status(500).json"
                                               THEN "res.json" ELSE "return",
                                       body |-> [message |-> h.route]]
                                 ELSE Caught(h, "Shopify API error")])
    /\ UNCHANGED <<analyticsVars, suggestCall, aiVars, paging, ltv, flight>>

NextApi ==
    \/ HandleRequest
    \/ CallService

SpecApi == InitServices /\ [][NextApi]_vars

-----------------------------------------------------------------------------
(* Properties *)

\* A request has been answered with analytics
Done == pc = "done" /\ response # Undefined /\ response[1].data # Undefined
Data == response[1].data[1]
Loc == locals[1]
Emitted == Data.intelligent_suggestions.suggestions
EmittedTypes == {Emitted[i].type : i \in 1..Len(Emitted)}
Summary == Data.intelligent_suggestions.performance_summary

InventoryTypes == {"CRITICAL_INVENTORY", "LOW_INVENTORY", "INVENTORY_WARNING", "OVERSTOCK"}
PerformanceTypes == {"NO_SALES", "POOR_PERFORMANCE", "BELOW_TARGET", "HIGH_PERFORMER"}
TrendTypes == {"DECLINING_TREND", "POSITIVE_MOMENTUM"}

CountOf(types) == Cardinality({i \in 1..Len(Emitted) : Emitted[i].type \in types})

\* C1: at most one inventory suggestion per call, chosen by the first match of
\* stock = 0, days of stock <= 7, <= 30, > 180; none when stock # 0 and
\* 30 < days of stock <= 180.
C1_InventoryChain ==
    Done =>
        LET stock == Loc.currentInventory
            days == Loc.daysOfStockRemaining
        IN /\ CountOf(InventoryTypes) <= 1
           /\ "CRITICAL_INVENTORY" \in EmittedTypes <=> stock = 0
           /\ "LOW_INVENTORY" \in EmittedTypes <=> (stock # 0 /\ 7 * days[2] >= days[1])
           /\ "INVENTORY_WARNING" \in EmittedTypes
                 <=> (stock # 0 /\ 7 * days[2] < days[1] /\ days[1] <= 30 * days[2])
           /\ "OVERSTOCK" \in EmittedTypes <=> (stock # 0 /\ days[1] > 180 * days[2])
           /\ (stock > 0 /\ days[1] > 30 * days[2] /\ days[1] <= 180 * days[2])
                 => CountOf(InventoryTypes) = 0

\* A call with stock left for exactly 30 days: INVENTORY_WARNING, on the boundary
C1_Witness ==
    /\ Done
    /\ Loc.currentInventory > 0
    /\ Loc.daysOfStockRemaining[1] = 30 * Loc.daysOfStockRemaining[2]
    /\ "INVENTORY_WARNING" \in EmittedTypes

\* C2: at most one performance suggestion per call: NO_SALES iff the rate is
\* 0, else POOR_PERFORMANCE iff rate < 0.3 * threshold, else BELOW_TARGET iff
\* rate < threshold, else HIGH_PERFORMER iff rate >= 2 * threshold; nothing
\* when threshold <= rate < 2 * threshold.
C2_PerformanceChain ==
    Done =>
        LET n == Loc.monthlySalesRate[1]
            d == Loc.monthlySalesRate[2]
            t == Loc.thresholdPercent
            zero == n = 0
            poor == 10 * n < 3 * t * d
            below == n < t * d
            high == n >= 2 * t * d
        IN /\ CountOf(PerformanceTypes) <= 1
           /\ "NO_SALES" \in EmittedTypes <=> zero
           /\ "POOR_PERFORMANCE" \in EmittedTypes <=> (~zero /\ poor)
           /\ "BELOW_TARGET" \in EmittedTypes <=> (~zero /\ ~poor /\ below)
           /\ "HIGH_PERFORMER" \in EmittedTypes <=> (~zero /\ ~poor /\ ~below /\ high)
           /\ (n >= t * d /\ n < 2 * t * d) => CountOf(PerformanceTypes) = 0

\* A call whose rate lies in [threshold, 2 * threshold): no performance suggestion
C2_Witness ==
    /\ Done
    /\ Loc.monthlySalesRate[1] >= Loc.thresholdPercent * Loc.monthlySalesRate[2]
    /\ Loc.monthlySalesRate[1] < 2 * Loc.thresholdPercent * Loc.monthlySalesRate[2]
    /\ Loc.totalQuantitySold > 0
    /\ CountOf(PerformanceTypes) = 0

\* Arguments and result of the direct call in progress
Call == staleCall[1]
CallThreshold ==
    IF Call.thresholdArg = Undefined THEN DEFAULT_STALE_PERCENTAGE ELSE Call.thresholdArg[1]
CallDaysLive == Ceil(Call.currentDate - Call.publishDate, TicksPerDay)

\* C3: percent_sold_per_month = (units_sold / months_live) / inventory * 100
\* with months_live = max(days_live / 30, 0.033) when inventory > 0, and 0 when
\* inventory is 0; is_stale iff that percentage < threshold.  The returned
\* field is the percentage rounded to two decimals.
C3_StaleFormula ==
    staleCall # Undefined =>
        LET u == Call.unitsSold
            inv == Call.totalInventoryAdded
            t == CallThreshold
            days == CallDaysLive
            \* months_live = mn / md
            floored == 1000 * days < 33 * 30
            mn == IF floored THEN 33 ELSE days
            md == IF floored THEN 1000 ELSE 30
            \* percentage = pn / pd
            pn == IF inv > 0 THEN 100 * u * md ELSE 0
            pd == IF inv > 0 THEN mn * inv ELSE 1
        IN /\ Call.ret.is_stale <=> pn < t * pd
           /\ Call.ret.percent_sold_per_month = (200 * pn + pd) \div (2 * pd)
           /\ Call.ret.threshold_percent_used = t
           /\ inv = 0 => (Call.ret.percent_sold_per_month = 0 /\ (Call.ret.is_stale <=> t > 0))

\* A call on a product published in the future (months_live at its minimum)
\* with sales and inventory
C3_Witness ==
    /\ staleCall # Undefined
    /\ CallDaysLive <= 0
    /\ Call.unitsSold > 0
    /\ Call.totalInventoryAdded > 0
    /\ ~Call.ret.is_stale

\* is_stale of the call in progress, with another threshold / other units sold
StaleUnder(t) ==
    calculatePercentageBasedStaleAnalysis(Call.unitsSold, Call.totalInventoryAdded,
        Call.publishDate, Call.currentDate, Some(t)).is_stale
StaleWith(u) ==
    calculatePercentageBasedStaleAnalysis(u, Call.totalInventoryAdded,
        Call.publishDate, Call.currentDate, Call.thresholdArg).is_stale

\* C4: for fixed units sold, inventory and dates, is_stale is non-decreasing
\* in the threshold: stale under t1 implies stale under every t2 > t1.
C4_MonotoneInThreshold ==
    staleCall # Undefined =>
        \A t2 \in 0..(2 * DEFAULT_STALE_PERCENTAGE) :
            (CallThreshold < t2 /\ Call.ret.is_stale) => StaleUnder(t2)

\* A stale call that is not stale under some smaller threshold
C4_Witness ==
    /\ staleCall # Undefined
    /\ Call.ret.is_stale
    /\ \E t1 \in 0..CallThreshold : t1 < CallThreshold /\ t1 > 0 /\ ~StaleUnder(t1)

\* C5: for fixed inventory, dates and threshold, is_stale is non-increasing
\* in units sold: not stale for u1 implies not stale for every u2 > u1.
C5_MonotoneInUnitsSold ==
    staleCall # Undefined =>
        \A u2 \in 0..(2 * MaxUnits) :
            (Call.unitsSold < u2 /\ ~Call.ret.is_stale) => ~StaleWith(u2)

\* A call that is not stale, and is stale with fewer (but some) units sold
C5_Witness ==
    /\ staleCall # Undefined
    /\ ~Call.ret.is_stale
    /\ \E u1 \in 1..Call.unitsSold : u1 < Call.unitsSold /\ StaleWith(u1)

\* No order of the shop holds a line item of the target variant
NoMatchingLineItems ==
    \A i \in 1..Len(shopOrders) : \A j \in 1..Len(shopOrders[i].line_items) :
        shopOrders[i].line_items[j].variant_id # TargetVariant

\* C6: with no matching line item (in particular no order at all) the result
\* has total_quantity_sold = 0, total_revenue = 0, monthly_sales_rate = 0 and
\* inventory_turnover_rate = 0, is stale for every threshold > 0, and the
\* performance rule emits NO_SALES.
C6_NoSales ==
    (Done /\ NoMatchingLineItems) =>
        /\ Data.total_quantity_sold = 0
        /\ Data.total_revenue = 0
        /\ Data.monthly_sales_rate = 0
        /\ Data.inventory_turnover_rate = 0
        /\ Data.threshold_percent_used > 0 => Data.is_stale = 1
        /\ \A t \in 1..(2 * DEFAULT_STALE_PERCENTAGE) :
              calculateFocusedVariantAnalytics(
                  FindVariant(shopProduct, TargetVariant)[1],
                  FilterVariantOrders(shopOrders, TargetVariant),
                  shopProduct, Some(t), currentDate).is_stale = 1
        /\ "NO_SALES" \in EmittedTypes

\* A request for a variant in stock while the shop has orders, all of them
\* for another variant
C6_Witness ==
    /\ Done
    /\ NoMatchingLineItems
    /\ Len(shopOrders) > 0
    /\ Data.current_quantity > 0
    /\ Data.is_stale = 1

InventoryStatuses == {"OUT_OF_STOCK", "CRITICAL_LOW", "LOW", "OPTIMAL", "HIGH", "OVERSTOCKED"}

\* C7: the inventory status label is one of the six statuses, and agrees with
\* the inventory rule of the same call: OUT_OF_STOCK with CRITICAL_INVENTORY,
\* CRITICAL_LOW with LOW_INVENTORY, LOW with INVENTORY_WARNING, OVERSTOCKED
\* with OVERSTOCK, OPTIMAL and HIGH with no inventory suggestion.
C7_StatusMatchesRule ==
    Done =>
        /\ Summary.inventory_status \in InventoryStatuses
        /\ Summary.inventory_status = "OUT_OF_STOCK" <=> "CRITICAL_INVENTORY" \in EmittedTypes
        /\ Summary.inventory_status = "CRITICAL_LOW" <=> "LOW_INVENTORY" \in EmittedTypes
        /\ Summary.inventory_status = "LOW" <=> "INVENTORY_WARNING" \in EmittedTypes
        /\ Summary.inventory_status = "OVERSTOCKED" <=> "OVERSTOCK" \in EmittedTypes
        /\ Summary.inventory_status \in {"OPTIMAL", "HIGH"} <=> CountOf(InventoryTypes) = 0
        /\ Summary.inventory_status = "OPTIMAL" =>
              /\ Loc.daysOfStockRemaining[1] > 30 * Loc.daysOfStockRemaining[2]
              /\ Loc.daysOfStockRemaining[1] <= 90 * Loc.daysOfStockRemaining[2]
        /\ Summary.inventory_status = "HIGH" =>
              /\ Loc.daysOfStockRemaining[1] > 90 * Loc.daysOfStockRemaining[2]
              /\ Loc.daysOfStockRemaining[1] <= 180 * Loc.daysOfStockRemaining[2]

\* A call labelled OVERSTOCKED
C7_Witness ==
    /\ Done
    /\ Summary.inventory_status = "OVERSTOCKED"
    /\ "OVERSTOCK" \in EmittedTypes

\* Position of a suggestion type's rule in the evaluation order
RuleOf(type) ==
    IF type \in InventoryTypes THEN 1
    ELSE IF type \in PerformanceTypes THEN 2
    ELSE IF type \in TrendTypes THEN 3
    ELSE IF type = "PRICING_OPPORTUNITY" THEN 4
    ELSE IF type = "SEASONAL_PLANNING" THEN 5
    ELSE 6

\* The rules whose own condition holds of the arguments of the call
RulesThatMatch ==
    LET stock == Loc.currentInventory
        days == Loc.daysOfStockRemaining
        n == Loc.monthlySalesRate[1]
        d == Loc.monthlySalesRate[2]
        t == Loc.thresholdPercent
        a == Loc.salesAcceleration
        ss == Loc.seasonalityScoreSquared
    IN {r \in 1..6 :
           \/ r = 1 /\ (stock = 0 \/ days[1] <= 30 * days[2] \/ days[1] > 180 * days[2])
           \/ r = 2 /\ (n = 0 \/ n < t * d \/ n >= 2 * t * d)
           \/ r = 3 /\ (10 * a[1] < -3 * a[2] \/ 10 * a[1] > 3 * a[2])
           \/ r = 4 /\ (n >= t * d /\ Data.price > 0)
           \/ r = 5 /\ (4 * ss[1] > ss[2])
           \/ r = 6 /\ (n < t * d /\ Data.total_revenue > 0)}

\* C8: the six rules are evaluated independently: every rule whose condition
\* holds contributes its suggestion whatever the other rules did, the
\* suggestions come in the order inventory, performance, trend, pricing,
\* seasonal, bundling, and total_suggestions counts them.
C8_IndependentRules ==
    Done =>
        /\ {RuleOf(Emitted[i].type) : i \in 1..Len(Emitted)} = RulesThatMatch
        /\ \A i, j \in 1..Len(Emitted) :
              i < j => RuleOf(Emitted[i].type) < RuleOf(Emitted[j].type)
        /\ Data.intelligent_suggestions.total_suggestions = Len(Emitted)
        /\ Len(Emitted) = Cardinality(RulesThatMatch)

\* A call in which five of the six rules fire together
C8_Witness ==
    /\ Done
    /\ Len(Emitted) >= 5
    /\ Cardinality(RulesThatMatch) >= 5

\* C9: DECLINING_TREND is emitted iff acceleration < -0.3, POSITIVE_MOMENTUM
\* iff acceleration > 0.3, and never both.
C9_TrendRule ==
    Done =>
        LET a == Loc.salesAcceleration
        IN /\ "DECLINING_TREND" \in EmittedTypes <=> 10 * a[1] < -3 * a[2]
           /\ "POSITIVE_MOMENTUM" \in EmittedTypes <=> 10 * a[1] > 3 * a[2]
           /\ CountOf(TrendTypes) <= 1

\* A call with an acceleration below -0.3
C9_Witness ==
    /\ Done
    /\ "DECLINING_TREND" \in EmittedTypes
    /\ Loc.salesAcceleration[1] < 0

\* C10: the trend label is IMPROVING iff acceleration > 0.1, DECLINING iff
\* acceleration < -0.1, STABLE otherwise; DECLINING_TREND comes only with the
\* label DECLINING and POSITIVE_MOMENTUM only with IMPROVING.
C10_TrendLabel ==
    Done =>
        LET a == Loc.salesAcceleration
        IN /\ Summary.trend \in {"IMPROVING", "DECLINING", "STABLE"}
           /\ Summary.trend = "IMPROVING" <=> 10 * a[1] > a[2]
           /\ Summary.trend = "DECLINING" <=> 10 * a[1] < -a[2]
           /\ "DECLINING_TREND" \in EmittedTypes => Summary.trend = "DECLINING"
           /\ "POSITIVE_MOMENTUM" \in EmittedTypes => Summary.trend = "IMPROVING"

\* A call labelled DECLINING whose acceleration does not reach the alert
C10_Witness ==
    /\ Done
    /\ Summary.trend = "DECLINING"
    /\ CountOf(TrendTypes) = 0

\* The suggestions of the direct call in progress
Suggested == suggestCall[1].ret.suggestions
SuggestedPricing == {i \in 1..Len(Suggested) : Suggested[i].type = "PRICING_OPPORTUNITY"}

C12_BundlingRule ==
    Done =>
        LET n == Loc.monthlySalesRate[1]
            d == Loc.monthlySalesRate[2]
            t == Loc.thresholdPercent
        IN /\ "BUNDLING_OPPORTUNITY" \in EmittedTypes <=> (n < t * d /\ Loc.totalRevenue > 0)
           /\ CountOf({"BUNDLING_OPPORTUNITY"}) <= 1
           /\ ~({"BUNDLING_OPPORTUNITY", "PRICING_OPPORTUNITY"} \subseteq EmittedTypes)
           /\ ~({"BUNDLING_OPPORTUNITY", "HIGH_PERFORMER"} \subseteq EmittedTypes)

\* A call for a priced variant with revenue, selling below the threshold:
\* bundling without a pricing suggestion
C12_Witness ==
    /\ Done
    /\ Data.price > 0
    /\ Loc.totalRevenue > 0
    /\ "BUNDLING_OPPORTUNITY" \in EmittedTypes
    /\ "PRICING_OPPORTUNITY" \notin EmittedTypes

\* The line items of the target variant in the shop's orders, as <<order, item>>
TargetLineItems ==
    {ij \in (1..Len(shopOrders)) \X (1..2) :
        /\ ij[2] <= Len(shopOrders[ij[1]].line_items)
        /\ shopOrders[ij[1]].line_items[ij[2]].variant_id = TargetVariant}

\* The documented example: published 60 days ago, 50 units in stock, one order
\* for the variant, of 10 units at 20.00, and no threshold in the request
IsExample ==
    /\ PublishedAt(shopProduct) = currentDate - 60 * TicksPerDay
    /\ Data.current_quantity = 50
    /\ Cardinality(TargetLineItems) = 1
    /\ \A ij \in TargetLineItems :
          /\ shopOrders[ij[1]].line_items[ij[2]].quantity = Some(10)
          /\ shopOrders[ij[1]].line_items[ij[2]].price = 2000
    /\ request[1].threshold_percent = Undefined

\* C13: on the documented example the pipeline returns total_quantity_sold =
\* 10, estimated_initial_quantity = 60, months_live = 2.0, monthly_sales_rate
\* = 5.0, percent_sold_per_month = 8.33, is_stale = true,
\* days_of_stock_remaining = 300, and BELOW_TARGET and OVERSTOCK are among the
\* suggestions.
C13_Example ==
    (Done /\ IsExample) =>
        /\ Data.total_quantity_sold = 10
        /\ Data.estimated_initial_quantity = 60
        /\ Data.months_live = 200
        /\ Data.monthly_sales_rate = 500
        /\ Data.percent_sold_per_month = 833
        /\ Data.is_stale = 1
        /\ Data.threshold_percent_used = DEFAULT_STALE_PERCENTAGE
        /\ Data.days_of_stock_remaining = 300
        /\ {"BELOW_TARGET", "OVERSTOCK"} \subseteq EmittedTypes

\* The example itself, its one order placed 30 days ago beside an order of
\* another variant
C13_Witness ==
    /\ Done
    /\ IsExample
    /\ Len(shopOrders) = 2
    /\ \A ij \in TargetLineItems : shopOrders[ij[1]].created_at = currentDate - 30 * TicksPerDay
    /\ Data.total_orders = 1

\* The category getProductCategoryFromAI returned for the request in flight
Resolved == aiResolved # Undefined
CalledEndpoints == {aiCalls[i].endpoint : i \in 1..Len(aiCalls)}

\* The text holds the word at some position, letter case set aside
SameLetter(c, l) == c = l \/ \E k \in 1..Len(LowerCase) : LowerCase[k] = l /\ UpperCase[k] = c
HoldsWord(text, word) ==
    \E start \in 0..(Len(text) - Len(word)) :
        \A k \in 1..Len(word) : SameLetter(text[start + k], word[k])

\* The list positions of the predefined categories the product's tags hold
CategoriesInTags ==
    IF aiProduct[1].tags = Undefined THEN {}
    ELSE {i \in 1..5 :
            HoldsWord(aiProduct[1].tags[1],
                      <<Str.furniture, Str.fashion, Str.food, Str.fitness, Str.electronics>>[i])}

\* C14: when the product's tags hold, case-insensitively and as a substring,
\* at least one predefined category, the resolver returns the first such
\* category in the order furniture, fashion, food, fitness, electronics, and
\* the classification endpoint is not called for that product.
C14_TagMatchFirst ==
    (Resolved /\ CategoriesInTags # {}) =>
        /\ \E i \in CategoriesInTags :
              /\ \A j \in CategoriesInTags : i <= j
              /\ aiResolved[1] =
                     <<Str.furniture, Str.fashion, Str.food, Str.fitness, Str.electronics>>[i]
        /\ ClassifyEndpoint \notin CalledEndpoints

\* Tags naming fashion before furniture, in capitals, with the endpoint
\* configured: furniture, and no classification call
C14_Witness ==
    /\ Resolved
    /\ aiUrl # Undefined
    /\ aiProduct[1].tags = Some(Str.tags_FashionFurniture)
    /\ aiResolved[1] = Str.furniture
    /\ ClassifyEndpoint \notin CalledEndpoints

\* The classification call of the request in flight, if one was made
ClassifyCalls == {i \in 1..Len(aiCalls) : aiCalls[i].endpoint = ClassifyEndpoint}

\* The classification gave nothing: the endpoint is not configured, the call
\* failed, or none of the six places of its result holds a category
NothingClassified ==
    \/ aiUrl = Undefined
    \/ \E i \in ClassifyCalls :
          \/ ~aiCalls[i].reply.ok
          \/ aiCalls[i].reply.result = Undefined
          \/ \A k \in 1..6 : aiCalls[i].reply.result[1][k] \in {Undefined, Some(<<>>)}

\* The entry of the static product-type map for the product's type
StaticCategory ==
    LET type == aiProduct[1].product_type
    IN IF type = Some(Str.Clothing) THEN Str.fashion ELSE Str.general

\* C15: the resolver always returns a category; without a tag match, and with
\* the endpoint unconfigured, failing, or answering with no category field
\* populated, it returns the static map's entry for the lower-cased product
\* type, "general" for an unmapped or absent type.
C15_FallbackCategory ==
    /\ aiPc \in {"orders", "metrics", "strategy"} => Resolved
    /\ Resolved => IsString(aiResolved[1])
    /\ (Resolved /\ CategoriesInTags = {} /\ NothingClassified) =>
          aiResolved[1] = StaticCategory

\* The getAllProducts call in progress or ended
Paging == paging # Undefined

\* The last page received ends the listing: its link header has no next link,
\* or it holds fewer than 250 products
LastPageEnds ==
    /\ paging[1].lastPage # Undefined
    /\ \/ paging[1].lastPage[1].link = Undefined
       \/ paging[1].lastPage[1].link[1].next = Undefined
       \/ paging[1].lastPage[1].products < PAGE_LIMIT

\* What a state of the call may be: at most 50 fetches issued, and no further
\* fetch possible once the last page ended the listing
PageCeiling ==
    Paging =>
        /\ paging[1].fetches <= MAX_PAGES
        /\ (paging[1].at = "loop" /\ LastPageEnds) => ~ENABLED FetchPage

\* The call has ended, by returning the products or by raising
PagingEnded == Paging /\ paging[1].at \in {"returned", "threw"}

\* C16: getAllProducts ends after at most 50 page fetches whatever the shop
\* answers, a full page of 250 products with a next link every time included,
\* and fetches no further page once a page has no next link or fewer than 250
\* products
C16_PageCeiling == []PageCeiling /\ (Paging ~> PagingEnded)

\* Fifty full pages with a next link were fetched and the call returned
C16_Witness ==
    /\ Paging
    /\ paging[1].at = "returned"
    /\ paging[1].fetches = MAX_PAGES
    /\ paging[1].allProducts = MAX_PAGES * PAGE_LIMIT
    /\ paging[1].hasNextPage

\* The request at a controller has been answered
Answered == ~ApiIdle /\ api[1].at = "done"

\* C17: every handler whose service call throws answers with a body that has
\* `error` and `details`, and lets no exception out; POST /ltv-cac/analyze and
\* GET /auth/callback included
C17_HandlersCatch ==
    (Answered /\ api[1].service = "threw") =>
        /\ api[1].response.via \in {"return", "res.status(500).json"}
        /\ {"error", "details"} \subseteq DOMAIN api[1].response.body

\* The credentials a request carries, and those of them that are missing or
\* empty
CredentialsOf(req) == DOMAIN req \cap {"shopDomain", "accessToken"}
MissingCredentials(req) == {f \in CredentialsOf(req) : Missing(req[f])}

\* C18: a request that lacks shopDomain or accessToken, or carries it empty,
\* is answered with an error body that lists the required fields and holds an
\* example payload, and no upstream call is made for it
C18_MissingCredentials ==
    (Answered /\ MissingCredentials(api[1].body) # {}) =>
        /\ {"error", "required", "example"} \subseteq DOMAIN api[1].response.body
        /\ MissingCredentials(api[1].body)
               \subseteq {api[1].response.body.required[k] : k \in DOMAIN api[1].response.body.required}
        /\ api[1].calls = <<>>

\* The variant analytics request was for a variant the fetched product lacks
AnalyticsVariantAbsent ==
    /\ pc = "done"
    /\ request[1].shopDomain # Undefined /\ request[1].accessToken # Undefined
    /\ FindVariant(shopProduct, request[1].variantId) = Undefined

\* The ai-data request was for a variant the fetched product lacks
AiVariantAbsent ==
    /\ aiPc = "done"
    /\ aiProduct # Undefined
    /\ FindVariant(aiProduct[1], aiReq[1].variantId) = Undefined

\* C19: a request for a variant that is not among the fetched product's
\* variants ends with a not-found error and no metrics of another variant; the
\* variant analytics request ends so before the orders fetch
C19_VariantNotFound ==
    /\ AnalyticsVariantAbsent =>
          /\ response[1].error # Undefined
          /\ response[1].details = Some("Variant not found in product")
          /\ response[1].data = Undefined
          /\ locals = Undefined
          /\ shopCalls = <<"products/:productId">>
    /\ AiVariantAbsent =>
          /\ "error" \in DOMAIN aiResponse[1]
          /\ aiPayload = Undefined

\* The replies of the calls the ai-data request made to an endpoint, in order
RepliesOf(endpoint) ==
    LET RECURSIVE Collect(_)
        Collect(i) ==
            IF i > Len(aiCalls) THEN <<>>
            ELSE IF aiCalls[i].endpoint = endpoint
                 THEN <<aiCalls[i].reply>> \o Collect(i + 1)
                 ELSE Collect(i + 1)
    IN  Collect(1)

\* The ai-data request got as far as the strategy prediction and was answered
StrategyAsked == aiPc = "done" /\ aiPayload # Undefined

\* The predict-strategy call was made and answered 2xx with a JSON body
StrategySucceeded ==
    /\ RepliesOf(StrategyEndpoint) # <<>>
    /\ RepliesOf(StrategyEndpoint)[1].ok
    /\ RepliesOf(StrategyEndpoint)[1].result # Undefined

\* C20: the ai-data request answers with the predict-strategy response as it
\* came when that call succeeds, and with the locally computed payload
\* unchanged when the endpoint is not configured, cannot be reached or answers
\* non-2xx; a strategy failure never fails the request, a failure of the
\* product or orders fetch always does
C20_StrategyFallback ==
    /\ StrategyAsked =>
          /\ DOMAIN aiResponse[1] = {"message", "data"}
          /\ Len(RepliesOf(StrategyEndpoint)) = (IF aiUrl = Undefined THEN 0 ELSE 1)
          /\ aiResponse[1].data = IF StrategySucceeded
                                  THEN RepliesOf(StrategyEndpoint)[1].result[1]
                                  ELSE aiPayload[1]
    /\ (aiPc = "done" /\ \E i \in 1..Len(aiCalls) :
                            aiCalls[i].endpoint \in {"products", "orders"} /\ ~aiCalls[i].reply.ok) =>
          /\ DOMAIN aiResponse[1] = {"error", "details"}
          /\ aiPayload = Undefined

\* The strategy service answered non-2xx and the request was answered with the
\* local payload
C20_Witness ==
    /\ StrategyAsked
    /\ RepliesOf(StrategyEndpoint) # <<>>
    /\ ~RepliesOf(StrategyEndpoint)[1].ok
    /\ aiResponse[1] = SuccessBody("AI product data generated successfully", aiPayload[1])

\* C22: threshold_percent_used is the request's threshold_percent whenever one
\* is supplied, 0 included, and 10 when it is omitted; under a supplied 0 no
\* variant is classified stale
C22_ThresholdUsed ==
    Done =>
        /\ Data.threshold_percent_used =
              (IF request[1].threshold_percent = Undefined
               THEN 10 ELSE request[1].threshold_percent[1])
        /\ request[1].threshold_percent = Some(0) => Data.is_stale = 0

\* The sum of f over the line items of the target variant in the shop's orders
MatchingSum(f(_)) ==
    LET RECURSIVE Sum(_)
        Sum(items) ==
            IF items = {} THEN 0
            ELSE LET ij == CHOOSE x \in items : TRUE
                 IN  f(shopOrders[ij[1]].line_items[ij[2]]) + Sum(items \ {ij})
    IN  Sum(TargetLineItems)

\* Creation times of the orders that hold a line item of the target variant
MatchingDates == {shopOrders[ij[1]].created_at : ij \in TargetLineItems}

\* C24: total_quantity_sold is the sum of quantity and total_revenue the sum
\* of quantity x unit price over exactly the line items of the target variant;
\* the first and last sale timestamps are the earliest and latest creation
\* times of the orders with such a line item, null when there is none
C24_OrderReduction ==
    Done =>
        LET units(item) == IF item.quantity = Undefined THEN 0 ELSE item.quantity[1]
            revenue(item) == units(item) * item.price
        IN  /\ Data.total_quantity_sold = MatchingSum(units)
            /\ Data.total_revenue = MatchingSum(revenue)
            /\ IF MatchingDates = {}
               THEN Data.first_sale_timestamp = Undefined /\ Data.last_sale_timestamp = Undefined
               ELSE /\ Data.first_sale_timestamp # Undefined
                    /\ Data.last_sale_timestamp # Undefined
                    /\ Data.first_sale_timestamp[1] \in MatchingDates
                    /\ Data.last_sale_timestamp[1] \in MatchingDates
                    /\ \A d \in MatchingDates :
                          Data.first_sale_timestamp[1] <= d /\ d <= Data.last_sale_timestamp[1]

\* Three orders, the latest placed first, one of them with the free unit next
\* to another variant's item: 11 units, 200.00, first sale 40 days ago
C24_Witness ==
    /\ Done
    /\ Len(shopOrders) = 3
    /\ shopOrders[1].created_at > shopOrders[2].created_at
    /\ \E i \in 1..3 : shopOrders[i].line_items = <<ItemOther, ItemFree>>
    /\ Data.total_quantity_sold = 11
    /\ Data.total_revenue = 20000
    /\ Data.first_sale_timestamp = Some(Now - 40 * TicksPerDay)
    /\ Data.last_sale_timestamp # Data.first_sale_timestamp

\* C25: in calculateFocusedVariantAnalytics months_live is at least the
\* minimum of 0.033 for every publish date, one at or after the time of the
\* request included, and monthly_sales_rate = units_sold / months_live: the
\* rate handed to generateVariantSuggestions is the rate the stale analysis
\* computes for the same inputs
C25_MonthlyRate ==
    Done =>
        /\ RGe(Loc.monthsLive, MINIMUM_MONTHS_LIVE)
        /\ REq(RMul(Loc.monthlySalesRate, Loc.monthsLive), Num(Loc.totalQuantitySold))
        /\ REq(Loc.monthlySalesRate,
               RDiv(Num(Loc.totalQuantitySold), StaleMonthsLive(Loc.daysLive)))
        /\ Summary.monthly_sales_rate = Loc.monthlySalesRate

\* C26: days_of_stock_remaining = current_inventory / daily_sales_rate when
\* the daily rate is positive and is above every day boundary when the rate is
\* 0: a variant with inventory and no sales is never reported LOW_INVENTORY /
\* CRITICAL_LOW and has stockout_risk 0; stockout_risk is 1 exactly when the
\* days of stock are <= 30
C26_DaysOfStock ==
    Done =>
        LET daily == Loc.averageDailySales
            selling == RGt(daily, Num(0))
        IN  /\ selling =>
                  REq(Loc.daysOfStockRemaining, RDiv(Num(Loc.currentInventory), daily))
            /\ (~selling /\ Loc.currentInventory > 0) =>
                  /\ "LOW_INVENTORY" \notin EmittedTypes
                  /\ Summary.inventory_status # "CRITICAL_LOW"
                  /\ Data.stockout_risk = 0
            /\ Data.stockout_risk = 1 <=>
                  (selling /\ RLe(RDiv(Num(Loc.currentInventory), daily), Num(30)))

\* The orders of the target variant by creation time, and the shop's orders
\* listed in another order
SortedSales == SortByDate(FilterVariantOrders(shopOrders, TargetVariant))
Relisted(p) == [i \in 1..Len(shopOrders) |-> shopOrders[p[i]]]
Relistings == {Relisted(p) : p \in Permutations(1..Len(shopOrders))}

\* No two orders of the target variant were created at the same time
DistinctSaleTimes ==
    \A i, j \in 1..Len(SortedSales) : i # j => SortedSales[i].created_at # SortedSales[j].created_at

\* The acceleration as the rates of the two halves of the sorted orders give it
AccelerationByHalves ==
    LET n == Len(SortedSales)
        firstHalf == SubSeq(SortedSales, 1, n \div 2)
        secondHalf == SubSeq(SortedSales, n \div 2 + 1, n)
        firstHalfRate == RDiv(Num(HalfSales(firstHalf, TargetVariant)), RMax(HalfDays(firstHalf), Num(1)))
        secondHalfRate == RDiv(Num(HalfSales(secondHalf, TargetVariant)), RMax(HalfDays(secondHalf), Num(1)))
    IN  /\ (n < 2 \/ REq(firstHalfRate, Num(0))) => REq(Loc.salesAcceleration, Num(0))
        /\ (n >= 2 /\ RGt(firstHalfRate, Num(0))) =>
              REq(RMul(Loc.salesAcceleration, firstHalfRate), RSub(secondHalfRate, firstHalfRate))
        /\ RGe(Loc.salesAcceleration, Num(-1))

\* C27 as stated: the acceleration is (secondHalfRate - firstHalfRate) /
\* firstHalfRate over the halves, split at floor(n/2), of the orders sorted by
\* creation time, 0 for fewer than 2 orders or a first-half rate of 0, never
\* below -1, and the same for every input order of the orders
C27_AnyInputOrder ==
    Done =>
        /\ AccelerationByHalves
        /\ \A orders \in Relistings :
              REq(calculateSalesAcceleration(orders, TargetVariant), Loc.salesAcceleration)

\* C27, amended: as above, and the same for every input order of the orders
\* when no two orders of the variant have the same creation time
C27_Acceleration ==
    Done =>
        /\ AccelerationByHalves
        /\ DistinctSaleTimes =>
              \A orders \in Relistings :
                 REq(calculateSalesAcceleration(orders, TargetVariant), Loc.salesAcceleration)

\* Three orders of the variant at three times, the latest listed first, with
\* an acceleration other than 0
C27_Witness ==
    /\ Done
    /\ Len(SortedSales) = 3
    /\ DistinctSaleTimes
    /\ shopOrders[1].created_at > shopOrders[2].created_at
    /\ ~REq(Loc.salesAcceleration, Num(0))

\* C29: the staleness flag and the performance suggestions agree: a result
\* with is_stale = 0 emits none of NO_SALES, POOR_PERFORMANCE, BELOW_TARGET and
\* BUNDLING_OPPORTUNITY, and a result with is_stale = 1 emits neither
\* HIGH_PERFORMER nor PRICING_OPPORTUNITY
C29_FlagAgrees ==
    Done =>
        /\ Data.is_stale = 0 =>
              EmittedTypes \cap {"NO_SALES", "POOR_PERFORMANCE", "BELOW_TARGET", "BUNDLING_OPPORTUNITY"} = {}
        /\ Data.is_stale = 1 =>
              EmittedTypes \cap {"HIGH_PERFORMER", "PRICING_OPPORTUNITY"} = {}

-----------------------------------------------------------------------------
(* The LTV/CAC analysis: POST /ltv-cac/analyze *)

LTV_PAGE_LIMIT == 250
LTV_DEMO_LIMIT == 1000
DEFAULT_LIFESPAN == 20
\* Length of an upstream page that is not full
ShortPage == LTV_PAGE_LIMIT \div 5

RECURSIVE GCD(_, _)
GCD(a, b) == IF b = 0 THEN a ELSE GCD(b, a % b)
\* The same number in lowest terms, for a >= 0
Reduce(a) == LET g == GCD(a[1], a[2]) IN IF g = 0 THEN a ELSE <<a[1] \div g, a[2] \div g>>
RAdd(a, b) == Reduce(<<a[1] * b[2] + b[1] * a[2], a[2] * b[2]>>)
RMin(a, b) == IF RLt(b, a) THEN b ELSE a

\* Bodies of the request; adSpend in dollars
LtvBodies ==
    [shopDomain : {Undefined, Some("shop.myshopify.com")}, accessToken : {Undefined, Some("token")}, adSpend : {Undefined, Some(0), Some(100), Some(5000)}]

\* Upstream replies to GET orders: Undefined for a response that is not ok,
\* else a page of orders that are all alike; total_price is Undefined when
\* parseFloat gives NaN
OrdersReplies ==
    {Undefined} \cup
    {Some(page) : page \in [length : {0, ShortPage, LTV_PAGE_LIMIT}, financial_status : {"paid", "partially_paid", "pending"}, total_price : {Undefined, Some(20)}]}

\* Upstream replies to GET customers: a page of customers that are all alike,
\* created and updated so many months before the request
CustomersReplies ==
    {Undefined} \cup
    {Some(page) : page \in [length : {0, ShortPage, LTV_PAGE_LIMIT}, created_at : {1, 8}, updated_at : {1, 4}, orders_count : {0, 2}]}

RecommendationAddSpend == "Please add your advertising spend to get a complete analysis of your customer acquisition costs."

generateRecommendation(ltvValue, cac) ==
    IF REq(cac, Num(0)) THEN RecommendationAddSpend
    ELSE LET ratio == RDiv(ltvValue, cac)
         IN IF RGe(ratio, Num(5)) THEN "Excellent!"
            ELSE IF RGe(ratio, Num(3)) THEN "Good news!"
            ELSE IF RGe(ratio, <<3, 2>>) THEN "Your business is making money."
            ELSE IF RGt(ratio, Num(1)) THEN "Warning: You're barely profitable."
            ELSE "Alert: You're losing money on each customer."

\* Mutant: without new customers the whole spend is the cost of one
calculateLtvCac_WholeSpend(totalRevenue, totalOrders, totalCustomers, churnRate, totalAdSpend, newCustomersAcquired) ==
    LET aov == IF totalOrders > 0 THEN RDiv(totalRevenue, Num(totalOrders)) ELSE Num(0)
        purchaseFrequency == IF totalCustomers > 0 THEN <<totalOrders, totalCustomers>> ELSE Num(0)
        customerLifespan == IF RGt(churnRate, Num(0)) THEN RDiv(Num(1), churnRate) ELSE Num(DEFAULT_LIFESPAN)
        ltvValue == Reduce(RMul(Reduce(RMul(Reduce(aov), Reduce(purchaseFrequency))), Reduce(customerLifespan)))
        cac == IF newCustomersAcquired > 0 THEN Reduce(<<totalAdSpend, newCustomersAcquired>>) ELSE Num(totalAdSpend)
    IN  [ltv |-> Round2(ltvValue), cac |-> Round2(cac), recommendation |-> generateRecommendation(ltvValue, cac)]

calculateLtvCac(totalRevenue, totalOrders, totalCustomers, churnRate, totalAdSpend, newCustomersAcquired) ==
    LET aov == IF totalOrders > 0 THEN RDiv(totalRevenue, Num(totalOrders)) ELSE Num(0)
        purchaseFrequency == IF totalCustomers > 0 THEN <<totalOrders, totalCustomers>> ELSE Num(0)
        customerLifespan == IF RGt(churnRate, Num(0)) THEN RDiv(Num(1), churnRate) ELSE Num(DEFAULT_LIFESPAN)
        ltvValue == Reduce(RMul(Reduce(RMul(Reduce(aov), Reduce(purchaseFrequency))), Reduce(customerLifespan)))
        cac == IF newCustomersAcquired > 0 THEN Reduce(<<totalAdSpend, newCustomersAcquired>>) ELSE Num(0)
    IN  [ltv |-> Round2(ltvValue), cac |-> Round2(cac), recommendation |-> generateRecommendation(ltvValue, cac)]

calculateChurnRate(totalCustomers, activeCustomers) ==
    IF totalCustomers = 0 THEN <<5, 100>>
    ELSE LET inactiveCustomers == totalCustomers - activeCustomers
             churnRate == Reduce(<<inactiveCustomers, totalCustomers * 6>>)
         IN RMax(<<1, 100>>, RMin(<<1, 2>>, churnRate))

\* The data of the shop, from the totals of the two loops; churn_rate in
\* thousandths
fetchShopifyData(l) ==
    [total_revenue |-> l.totalRevenue,
     total_orders |-> l.totalOrders,
     total_customers |-> l.totalCustomers,
     churn_rate |-> Round(RMul(calculateChurnRate(l.totalCustomers, l.activeCustomers), Num(1000))),
     new_customers_acquired |-> l.newCustomers]

\* The 400 answer of the catch block
LtvFailure(message) ==
    [status |-> 400, error |-> "LTV/CAC Analysis Failed", message |-> message]

\* The answer of the handler; ltv and cac in hundredths
LtvAnswer(body, shopifyData) ==
    LET adSpend == IF body.adSpend = Undefined THEN 0 ELSE body.adSpend[1]
        result == calculateLtvCac(Num(shopifyData.total_revenue), shopifyData.total_orders, shopifyData.total_customers, <<shopifyData.churn_rate, 1000>>, adSpend, shopifyData.new_customers_acquired)
    IN  [ltv |-> result.ltv, cac |-> result.cac, recommendation |-> result.recommendation, shopify_data |-> shopifyData]

analyzeLtvCac ==
    /\ ltv = Undefined
    /\ \E body \in LtvBodies :
          ltv' = Some([body |-> body,
                       at |-> IF body.shopDomain = Undefined \/ body.accessToken = Undefined THEN "threw" ELSE "orders",
                       awaiting |-> FALSE,
                       totalRevenue |-> 0, totalOrders |-> 0,
                       totalCustomers |-> 0, newCustomers |-> 0, activeCustomers |-> 0,
                       answer |-> IF body.shopDomain = Undefined \/ body.accessToken = Undefined
                                  THEN Some(LtvFailure("Shop domain and access token are required"))
                                  ELSE Undefined])
    /\ UNCHANGED <<analyticsVars, suggestCall, aiVars, paging, api, flight>>

\* client.get of a loop: the request for the next page leaves
ClientGet ==
    /\ ltv # Undefined
    /\ ltv[1].at \in {"orders", "customers"}
    /\ ~ltv[1].awaiting
    /\ ltv' = Some([ltv[1] EXCEPT !.awaiting = TRUE])
    /\ UNCHANGED <<analyticsVars, suggestCall, aiVars, paging, api, flight>>

\* One pass of the loop of fetchOrdersData, on the reply to its request
fetchOrdersData ==
    /\ ltv # Undefined
    /\ ltv[1].at = "orders"
    /\ ltv[1].awaiting
    /\ \E reply \in OrdersReplies :
          IF reply = Undefined
          THEN ltv' = Some([ltv[1] EXCEPT !.at = "threw", !.awaiting = FALSE,
                                          !.answer = Some(LtvFailure("Failed to fetch orders data: Shopify API error"))])
          ELSE LET orders == reply[1]
                   paid == orders.financial_status \in {"paid", "partially_paid"}
                   price == IF orders.total_price = Undefined THEN 0 ELSE orders.total_price[1]
                   totalRevenue == ltv[1].totalRevenue + (IF paid THEN orders.length * price ELSE 0)
                   totalOrders == ltv[1].totalOrders + (IF paid THEN orders.length ELSE 0)
                   pageInfo == orders.length = LTV_PAGE_LIMIT
               IN ltv' = Some([ltv[1] EXCEPT !.totalRevenue = totalRevenue, !.totalOrders = totalOrders,
                                             !.awaiting = FALSE,
                                             !.at = IF pageInfo /\ ~(totalOrders > LTV_DEMO_LIMIT) THEN "orders" ELSE "customers"])
    /\ UNCHANGED <<analyticsVars, suggestCall, aiVars, paging, api, flight>>

\* One pass of the loop of fetchCustomersData, on the reply to its request;
\* after the last pass the handler computes its answer
fetchCustomersData ==
    /\ ltv # Undefined
    /\ ltv[1].at = "customers"
    /\ ltv[1].awaiting
    /\ \E reply \in CustomersReplies :
          IF reply = Undefined
          THEN ltv' = Some([ltv[1] EXCEPT !.at = "threw", !.awaiting = FALSE,
                                          !.answer = Some(LtvFailure("Failed to fetch customers data: Shopify API error"))])
          ELSE LET customers == reply[1]
                   totalCustomers == ltv[1].totalCustomers + customers.length
                   newCustomers == ltv[1].newCustomers + (IF customers.created_at <= 6 THEN customers.length ELSE 0)
                   activeCustomers == ltv[1].activeCustomers + (IF customers.updated_at <= 3 /\ customers.orders_count > 0 THEN customers.length ELSE 0)
                   pageInfo == customers.length = LTV_PAGE_LIMIT
                   l == [ltv[1] EXCEPT !.totalCustomers = totalCustomers, !.newCustomers = newCustomers,
                                       !.activeCustomers = activeCustomers, !.awaiting = FALSE]
               IN IF pageInfo /\ ~(totalCustomers > LTV_DEMO_LIMIT)
                  THEN ltv' = Some(l)
                  ELSE ltv' = Some([l EXCEPT !.at = "done", !.answer = Some(LtvAnswer(l.body, fetchShopifyData(l)))])
    /\ UNCHANGED <<analyticsVars, suggestCall, aiVars, paging, api, flight>>

NextLtv ==
    \/ analyzeLtvCac
    \/ ClientGet
    \/ fetchOrdersData
    \/ fetchCustomersData

SpecLtv == InitServices /\ [][NextLtv]_vars

\* The upstream answers every request and the handler runs on
FairSpecLtv == SpecLtv /\ WF_vars(NextLtv)

LtvRunning == ltv # Undefined /\ ltv[1].at \in {"orders", "customers"}
LtvEnded == ltv # Undefined /\ ltv[1].at \in {"done", "threw"}
LtvDone == ltv # Undefined /\ ltv[1].at = "done"

\* C21: an analysis with adSpend 0 or omitted answers cac = 0 with the
\* recommendation to add the advertising spend, whatever the revenue and the
\* counts of orders, customers and new customers, zero included, and its ltv
\* is a number; so does an analysis that found no new customer, whatever
\* the adSpend
C21_NoAdSpend ==
    LtvDone /\ (ltv[1].body.adSpend \in {Undefined, Some(0)} \/ ltv[1].answer[1].shopify_data.new_customers_acquired = 0) =>
        /\ ltv[1].answer[1].cac = 0
        /\ ltv[1].answer[1].recommendation = RecommendationAddSpend
        /\ ltv[1].answer[1].ltv \in Nat

\* An analysis with an adSpend of 5000 that found orders and customers, none
\* of them new
C21_Witness ==
    /\ LtvDone
    /\ ltv[1].body.adSpend = Some(5000)
    /\ ltv[1].answer[1].shopify_data.new_customers_acquired = 0
    /\ ltv[1].answer[1].shopify_data.total_customers > 0
    /\ ltv[1].answer[1].shopify_data.total_orders > 0
    /\ ltv[1].answer[1].ltv > 0

\* C28: each loop of the LTV/CAC analysis ends after a bounded number of
\* fetches, whatever the upstream answers: an analysis that is fetching
\* orders or customers comes to its answer or to its failure
C28_LoopsTerminate == LtvRunning ~> LtvEnded

\* The body of a call to the classification endpoint holds variant data, or
\* the access token of the request
SendsVariants(call) == \E k \in 1..Len(call.body[1].data.products) : "variants" \in DOMAIN call.body[1].data.products[k]
SendsToken(call) ==
    \/ call.token = aiReq[1].accessToken
    \/ call.endpoint = ClassifyEndpoint /\ Some(call.body[1].data.searchParams.accessToken) = aiReq[1].accessToken

\* C30: the request to the classification endpoint holds no variant data and
\* no credentials of the merchant, and the access token of a request goes to
\* the shop domain of that request only, never to the AI service
C30_Redacted ==
    aiReq # Undefined =>
        \A i \in 1..Len(aiCalls) :
            /\ aiCalls[i].endpoint = ClassifyEndpoint => ~SendsVariants(aiCalls[i]) /\ ~SendsToken(aiCalls[i])
            /\ SendsToken(aiCalls[i]) => aiCalls[i].host = aiReq[1].shopDomain[1]

-----------------------------------------------------------------------------
(* Two variant analytics requests served at once *)

\* Two shops, as the Shopify Admin API serves them: the first has sold five
\* units of the variant, the second none
Shops ==
    <<[shopDomain |-> "a.myshopify.com", accessToken |-> "tokenA",
       product |-> [published_at |-> Some(Now - 30 * TicksPerDay), created_at |-> Now - 60 * TicksPerDay,
                    variants |-> <<OtherVariantRecord, [id |-> TargetVariant, inventory_quantity |-> Some(5), price |-> Some(2000)]>>],
       orders |-> <<[created_at |-> Now - 10 * TicksPerDay, line_items |-> <<ItemFive>>]>>],
      [shopDomain |-> "b.myshopify.com", accessToken |-> "tokenB",
       product |-> [published_at |-> Undefined, created_at |-> Now - 60 * TicksPerDay,
                    variants |-> <<OtherVariantRecord, [id |-> TargetVariant, inventory_quantity |-> Some(50), price |-> Some(0)]>>],
       orders |-> <<>>]>>

\* The reply to a GET with these credentials: the product or the orders of
\* the shop, or Undefined when the response is not ok
ShopReply(client, endpoint) ==
    LET hits == SelectSeq(Shops, LAMBDA shop : shop.shopDomain = client.shopDomain /\ shop.accessToken = client.accessToken)
    IN IF hits = <<>> THEN Undefined
       ELSE IF endpoint = "orders" THEN Some(hits[1].orders) ELSE Some(hits[1].product)

\* Bodies of the requests, with the credentials of a shop or a token that is
\* not the shop's
FlightBodies ==
    [shopDomain : {Shops[i].shopDomain : i \in 1..Len(Shops)}, accessToken : {Shops[i].accessToken : i \in 1..Len(Shops)}, variantId : {TargetVariant}, threshold_percent : {Undefined, Some(5)}]

\* The client is a closure over its two arguments
createClientWithCredentials(shopDomain, accessToken) ==
    [shopDomain |-> shopDomain, accessToken |-> accessToken]

\* Mutant: the client of the request is the one created last
ClientOf_Shared(r) ==
    IF \E q \in 1..Len(flight) : q # r /\ flight[q] # Undefined
    THEN flight[CHOOSE q \in 1..Len(flight) : q # r /\ flight[q] # Undefined][1].client
    ELSE flight[r][1].client

\* The local `client` of the request in slot r
ClientOf(r) == flight[r][1].client

\* client.get: the call as it leaves, and its reply
ClientGetCall(client, endpoint) ==
    [endpoint |-> endpoint, host |-> client.shopDomain, token |-> client.accessToken, reply |-> ShopReply(client, endpoint)]

\* What the controller answers when the service throws
FlightFailure == Body(Undefined, Some("Failed to generate variant analytics"), Some("Shopify API error"), Undefined)

\* The controller receives a request and the service creates its client
ReceiveVariantRequest(r) ==
    /\ flight[r] = Undefined
    /\ \E body \in FlightBodies :
          flight' = [flight EXCEPT ![r] = Some([body |-> body, at |-> "product",
                                                client |-> createClientWithCredentials(body.shopDomain, body.accessToken),
                                                calls |-> <<>>, product |-> Undefined, answer |-> Undefined])]
    /\ UNCHANGED <<analyticsVars, suggestCall, aiVars, paging, api, ltv>>

\* await client.get products/{productId}
GetFlightProduct(r) ==
    /\ flight[r] # Undefined
    /\ flight[r][1].at = "product"
    /\ LET call == ClientGetCall(ClientOf(r), "products/:productId")
           l == [flight[r][1] EXCEPT !.calls = Append(@, call)]
       IN flight' = [flight EXCEPT ![r] =
                        IF call.reply = Undefined
                        THEN Some([l EXCEPT !.at = "done", !.answer = Some(FlightFailure)])
                        ELSE Some([l EXCEPT !.at = "orders", !.product = call.reply])]
    /\ UNCHANGED <<analyticsVars, suggestCall, aiVars, paging, api, ltv>>

\* await client.get orders, the analytics and the controller's answer
GetFlightOrders(r) ==
    /\ flight[r] # Undefined
    /\ flight[r][1].at = "orders"
    /\ LET call == ClientGetCall(ClientOf(r), "orders")
           l == [flight[r][1] EXCEPT !.calls = Append(@, call), !.at = "done"]
           product == l.product[1]
           found == FindVariant(product, l.body.variantId)
       IN flight' = [flight EXCEPT ![r] =
                        IF call.reply = Undefined
                        THEN Some([l EXCEPT !.answer = Some(FlightFailure)])
                        ELSE Some([l EXCEPT !.answer =
                                 Some(Body(Some("Variant analytics generated successfully"), Undefined, Undefined,
                                           Some(calculateFocusedVariantAnalytics(found[1], FilterVariantOrders(call.reply[1], l.body.variantId), product, l.body.threshold_percent, Now))))])]
    /\ UNCHANGED <<analyticsVars, suggestCall, aiVars, paging, api, ltv>>

\* The controller has answered; the service keeps nothing of the request
FlightRespond(r) ==
    /\ flight[r] # Undefined
    /\ flight[r][1].at = "done"
    /\ flight' = [flight EXCEPT ![r] = Undefined]
    /\ UNCHANGED <<analyticsVars, suggestCall, aiVars, paging, api, ltv>>

NextFlight ==
    \E r \in 1..Len(flight) :
        \/ ReceiveVariantRequest(r)
        \/ GetFlightProduct(r)
        \/ GetFlightOrders(r)
        \/ FlightRespond(r)

SpecFlight == InitServices /\ [][NextFlight]_vars

\* What a request alone would be answered, from the replies of the shop to
\* its own credentials
AnsweredAlone(body) ==
    LET client == [shopDomain |-> body.shopDomain, accessToken |-> body.accessToken]
        product == ShopReply(client, "products/:productId")
        orders == ShopReply(client, "orders")
    IN IF product = Undefined \/ orders = Undefined THEN FlightFailure
       ELSE Body(Some("Variant analytics generated successfully"), Undefined, Undefined,
                 Some(calculateFocusedVariantAnalytics(FindVariant(product[1], body.variantId)[1], FilterVariantOrders(orders[1], body.variantId), product[1], body.threshold_percent, Now)))

\* C23: requests are isolated: every Shopify call made for a request goes to
\* the shopDomain of its body with the accessToken of its body, and the
\* answer of a request is the one its body and the replies to its own calls
\* give, whatever the other request does meanwhile
C23_Isolated ==
    \A r \in 1..Len(flight) :
        flight[r] # Undefined =>
            /\ \A i \in 1..Len(flight[r][1].calls) :
                  /\ flight[r][1].calls[i].host = flight[r][1].body.shopDomain
                  /\ flight[r][1].calls[i].token = flight[r][1].body.accessToken
            /\ flight[r][1].at = "done" => flight[r][1].answer = Some(AnsweredAlone(flight[r][1].body))

\* The first request is answered with the analytics of its shop while the
\* second, with the credentials of the other shop, is between its two calls
C23_Witness ==
    /\ flight[1] # Undefined /\ flight[2] # Undefined
    /\ flight[1][1].body.shopDomain # flight[2][1].body.shopDomain
    /\ flight[1][1].body.accessToken # flight[2][1].body.accessToken
    /\ flight[1][1].at = "done" /\ Len(flight[1][1].calls) = 2 /\ flight[1][1].answer[1].data # Undefined
    /\ flight[2][1].at = "orders" /\ Len(flight[2][1].calls) = 1

=============================================================================
